---- MODULE Spec2Model ----
(***************************************************************************)
(* A model of node-debugprotocol-client: BaseDebugClient (sequence         *)
(* allocation, request/response correlation, event and reverse-request     *)
(* dispatch), StreamDebugClient (connection guard, Content-Length framing  *)
(* of the inbound byte stream) and encodeMessage.                          *)
(*                                                                         *)
(* Every method of the client is a pure operator on a record c holding the *)
(* object's fields; the operator keeps the method's name.  An action       *)
(* applies one method to the current fields (Cur) and installs the result  *)
(* (Install).  A method that throws leaves its exception in c.thrown.      *)
(***************************************************************************)
EXTENDS Integers, Sequences, FiniteSets, TLC

(***************************************************************************)
(* Bounds of the model.                                                    *)
(***************************************************************************)
\* at most MaxSeq messages are written and at most MaxSeq seq values are
\* issued; a reverse request is dispatched to a handler only while a seq is
\* left for its response
MaxSeq == 2
\* at most MaxFrames frames travel on the inbound stream of one connection,
\* and one data event carries at most MaxFrames frames
MaxFrames == 2
\* inStream delivers what it holds in one chunk, or a chunk of 1..MaxChunk bytes
MaxChunk == 2
\* the application holds at most MaxHandles Unsubscribable objects
MaxHandles == 2

(***************************************************************************)
(* JavaScript values.  typeof is the tag t.                                *)
(***************************************************************************)
Undefined == [t |-> "undefined"]
Num(n) == [t |-> "number", v |-> n]
Str(s) == [t |-> "string", v |-> s]
Bool(b) == [t |-> "boolean", v |-> b]
Obj(o) == [t |-> "object", v |-> o]
\* a string given by its UTF-16 code units
Text(units) == [t |-> "string", units |-> units]
TypeOf(x) == x.t

\* new Error(message): an undefined message gives the empty message
ErrorOf(message) ==
    [t |-> "error",
     message |-> IF TypeOf(message) = "undefined" THEN Str("") ELSE message]

(***************************************************************************)
(* DebugProtocol.ProtocolMessage: one record shape, absent fields are      *)
(* Undefined.                                                              *)
(***************************************************************************)
EmptyMessage ==
    [seq |-> Undefined, type |-> Undefined, command |-> Undefined,
     arguments |-> Undefined, request_seq |-> Undefined, success |-> Undefined,
     body |-> Undefined, message |-> Undefined, event |-> Undefined]

Commands == {"launch"}
ReverseCommands == {"runInTerminal"}
EventNames == {"stopped", "output"}
Bodies == {Obj("x1"), Obj("x2")}
ErrorTexts == {"bad"}
Callbacks == {"cb1", "cb2", "cbThrows"}
Handlers == {"h1", "h2", "hThrows"}
None == "none"
\* the pairs of streams the application may hand to connectAdapter
Streams == {"streams1", "streams2"}
FirstStreams == "streams1"
\* enum ConnectionState
Disconnected == "Disconnected"
Connecting == "Connecting"
Connected == "Connected"
\* the functions of the application that throw when they are called
Throws(f) == f \in {"cbThrows", "hThrows"}
\* the listener of the application that calls disconnectAdapter
Disconnects(f) == f = "cbDisconnects"

\* the messages an adapter sends that the model dispatches
InboundResponses ==
    { [EmptyMessage EXCEPT !.seq = Num(1), !.type = Str("response"),
          !.command = Str("launch"), !.request_seq = Num(rs),
          !.success = Bool(TRUE), !.body = b]
        : rs \in 1..MaxSeq, b \in Bodies }
    \cup
    { [EmptyMessage EXCEPT !.seq = Num(1), !.type = Str("response"),
          !.command = Str("launch"), !.request_seq = Num(rs),
          !.success = Bool(FALSE), !.message = e]
        : rs \in 1..MaxSeq, e \in {Str(x) : x \in ErrorTexts} \cup {Undefined} }

InboundEvents ==
    { [EmptyMessage EXCEPT !.seq = Num(1), !.type = Str("event"),
          !.event = Str(e), !.body = b]
        : e \in EventNames, b \in Bodies }

InboundRequests ==
    { [EmptyMessage EXCEPT !.seq = Num(s), !.type = Str("request"),
          !.command = Str(cmd), !.arguments = Obj("args")]
        : s \in {1}, cmd \in ReverseCommands \cup {"startDebugging"} }

\* a type tag with the required fields missing or wrongly typed, or no known tag
InboundUnknown ==
    { [EmptyMessage EXCEPT !.seq = Num(1), !.type = Str("response"),
          !.request_seq = Num(1)],
      [EmptyMessage EXCEPT !.seq = Num(1), !.type = Str("response"),
          !.request_seq = Str("1"), !.success = Bool(TRUE), !.body = Obj("x1")],
      [EmptyMessage EXCEPT !.type = Str("event"), !.event = Str("stopped")],
      [EmptyMessage EXCEPT !.seq = Num(1), !.type = Str("request")],
      [EmptyMessage EXCEPT !.seq = Num(1), !.type = Str("notification")],
      EmptyMessage }

InboundMessages ==
    InboundResponses \cup InboundEvents \cup InboundRequests \cup InboundUnknown

(***************************************************************************)
(* protocol.ts: the classifiers.                                           *)
(***************************************************************************)
isRequest(message) ==
    /\ message.type = Str("request")
    /\ TypeOf(message.command) = "string"
    /\ TypeOf(message.seq) = "number"

\* mutant: a response needs a seq like the other two
isResponse_NeedsSeq(message) ==
    /\ message.type = Str("response")
    /\ TypeOf(message.request_seq) = "number"
    /\ TypeOf(message.success) = "boolean"
    /\ TypeOf(message.seq) = "number"

isResponse(message) ==
    /\ message.type = Str("response")
    /\ TypeOf(message.request_seq) = "number"
    /\ TypeOf(message.success) = "boolean"

isEvent(message) ==
    /\ message.type = Str("event")
    /\ TypeOf(message.event) = "string"
    /\ TypeOf(message.seq) = "number"

(***************************************************************************)
(* JavaScript strings are sequences of UTF-16 code units, buffers are      *)
(* sequences of bytes.  Chars(s) is the string the model names s: the      *)
(* text of s itself, except for the names of the three strings with a      *)
(* character outside ASCII.                                                *)
(***************************************************************************)
Chars(s) ==
    CASE s = "seq" -> <<115, 101, 113>>
      [] s = "type" -> <<116, 121, 112, 101>>
      [] s = "command" -> <<99, 111, 109, 109, 97, 110, 100>>
      [] s = "arguments" -> <<97, 114, 103, 117, 109, 101, 110, 116, 115>>
      [] s = "request_seq" -> <<114, 101, 113, 117, 101, 115, 116, 95, 115, 101, 113>>
      [] s = "success" -> <<115, 117, 99, 99, 101, 115, 115>>
      [] s = "message" -> <<109, 101, 115, 115, 97, 103, 101>>
      [] s = "body" -> <<98, 111, 100, 121>>
      [] s = "event" -> <<101, 118, 101, 110, 116>>
      [] s = "request" -> <<114, 101, 113, 117, 101, 115, 116>>
      [] s = "response" -> <<114, 101, 115, 112, 111, 110, 115, 101>>
      [] s = "notification" -> <<110, 111, 116, 105, 102, 105, 99, 97, 116, 105, 111, 110>>
      [] s = "launch" -> <<108, 97, 117, 110, 99, 104>>
      [] s = "runInTerminal" -> <<114, 117, 110, 73, 110, 84, 101, 114, 109, 105, 110, 97, 108>>
      [] s = "startDebugging" -> <<115, 116, 97, 114, 116, 68, 101, 98, 117, 103, 103, 105, 110, 103>>
      [] s = "stopped" -> <<115, 116, 111, 112, 112, 101, 100>>
      [] s = "output" -> <<111, 117, 116, 112, 117, 116>>
      [] s = "bad" -> <<98, 97, 100>>
      [] s = "1" -> <<49>>
      [] s = "true" -> <<116, 114, 117, 101>>
      [] s = "false" -> <<102, 97, 108, 115, 101>>
      [] s = "Content-Length" -> <<67, 111, 110, 116, 101, 110, 116, 45, 76, 101, 110, 103, 116, 104>>
      [] s = "" -> <<>>
      [] s = "e_acute" -> <<233>>   \* U+00E9
      [] s = "euro" -> <<8364>>   \* U+20AC
      [] s = "grinning" -> <<55357, 56832>>   \* U+1F600
      [] s = "not connected" -> <<110, 111, 116, 32, 99, 111, 110, 110, 101, 99, 116, 101, 100>>

\* the JSON text of the opaque objects of the model
ObjText(o) ==
    CASE o = "x1" -> <<123, 34, 120, 34, 58, 49, 125>>   \* {"x":1}
      [] o = "x2" -> <<123, 34, 120, 34, 58, 50, 125>>   \* {"x":2}
      [] o = "args" -> <<123, 125>>   \* {}
      [] o = "error" -> <<123, 125>>   \* {}

\* protocol.ts 3-4
TWO_CRLF == <<13, 10, 13, 10>>
CONTENT_LENGTH_HEADER == Chars("Content-Length")
CRLF == <<13, 10>>

RECURSIVE DecimalString(_)
\* the decimal digits of a number >= 0, as `${n}` gives them
DecimalString(n) ==
    IF n < 10 THEN <<48 + n>> ELSE DecimalString(n \div 10) \o <<48 + (n % 10)>>

IsHighSurrogate(u) == u >= 55296 /\ u <= 56319
IsLowSurrogate(u) == u >= 56320 /\ u <= 57343
IsContinuation(b) == b >= 128 /\ b <= 191
REPLACEMENT == <<65533>>

RECURSIVE ConcatRange(_, _, _)
\* parts[lo] \o ... \o parts[hi], halving the range
ConcatRange(parts, lo, hi) ==
    IF lo > hi THEN << >>
    ELSE IF lo = hi THEN parts[lo]
    ELSE LET mid == (lo + hi) \div 2
         IN  ConcatRange(parts, lo, mid) \o ConcatRange(parts, mid + 1, hi)

\* the bytes of the code unit at position i: a high surrogate followed by a
\* low one makes one code point of four bytes, a lone surrogate is U+FFFD
Utf8EncodeAt(str, i) ==
    LET u == str[i]
    IN  IF u < 128 THEN <<u>>
        ELSE IF u < 2048 THEN <<192 + (u \div 64), 128 + (u % 64)>>
        ELSE IF IsHighSurrogate(u) /\ i < Len(str) /\ IsLowSurrogate(str[i + 1])
        THEN LET cp == 65536 + (u - 55296) * 1024 + (str[i + 1] - 56320)
             IN  <<240 + (cp \div 262144), 128 + ((cp \div 4096) % 64),
                   128 + ((cp \div 64) % 64), 128 + (cp % 64)>>
        ELSE IF IsLowSurrogate(u) /\ i > 1 /\ IsHighSurrogate(str[i - 1])
        THEN << >>
        ELSE IF IsHighSurrogate(u) \/ IsLowSurrogate(u) THEN <<239, 191, 189>>
        ELSE <<224 + (u \div 4096), 128 + ((u \div 64) % 64), 128 + (u % 64)>>

\* the bytes Buffer.from(string, "utf8") and Writable.write(string) produce
Utf8Encode(str) ==
    ConcatRange([i \in 1..Len(str) |-> Utf8EncodeAt(str, i)], 1, Len(str))

\* how many continuation bytes the lead byte b announces (0: not a lead byte)
Announced(b) ==
    IF b >= 194 /\ b <= 223 THEN 1
    ELSE IF b >= 224 /\ b <= 239 THEN 2
    ELSE IF b >= 240 /\ b <= 244 THEN 3
    ELSE 0

\* how many continuation bytes follow position i in a row, n at most
Continuations(bytes, i, n) ==
    LET upto == {k \in 0..n : \A j \in 1..k :
                    i + j <= Len(bytes) /\ IsContinuation(bytes[i + j])}
    IN  CHOOSE k \in upto : \A l \in upto : l <= k

CodePointUnits(cp) ==
    IF cp < 65536 THEN <<cp>>
    ELSE <<55296 + ((cp - 65536) \div 1024), 56320 + ((cp - 65536) % 1024)>>

\* the code units the byte at position i decodes to: a lead byte speaks for
\* the continuation bytes it announces, and a sequence that is cut short or
\* does not start with a lead byte is U+FFFD (the finer second-byte ranges of
\* E0, ED, F0 and F4 are not modelled: the bytes decoded come from Utf8Encode)
Utf8DecodeAt(bytes, i) ==
    LET b == bytes[i]
        need == Announced(b)
        have == Continuations(bytes, i, need)
        before == {j \in 1..(i - 1) : ~IsContinuation(bytes[j])}
        lead == IF before = {} THEN 0
                ELSE CHOOSE j \in before : \A k \in before : k <= j
    IN  IF b < 128 THEN <<b>>
        ELSE IF IsContinuation(b)
        THEN IF lead > 0 /\ Announced(bytes[lead]) >= i - lead
             THEN << >> ELSE REPLACEMENT
        ELSE IF need = 0 \/ have < need THEN REPLACEMENT
        ELSE IF need = 1 THEN <<(b - 192) * 64 + (bytes[i + 1] - 128)>>
        ELSE IF need = 2
        THEN <<(b - 224) * 4096 + (bytes[i + 1] - 128) * 64
               + (bytes[i + 2] - 128)>>
        ELSE CodePointUnits((b - 240) * 262144 + (bytes[i + 1] - 128) * 4096
                            + (bytes[i + 2] - 128) * 64 + (bytes[i + 3] - 128))

\* buffer.toString("utf8")
Utf8Decode(bytes) ==
    ConcatRange([i \in 1..Len(bytes) |-> Utf8DecodeAt(bytes, i)], 1, Len(bytes))

(***************************************************************************)
(* JSON.stringify and JSON.parse of protocol messages.                     *)
(***************************************************************************)
\* the fields in the order the text has them (the order does not change what
\* JSON.parse returns, nor the length of the text)
FieldOrder ==
    <<"seq", "type", "command", "arguments", "request_seq", "success", "message",
      "body", "event">>

Quoted(str) == <<34>> \o str \o <<34>>

\* no string of the model holds a character JSON.stringify escapes
JSONvalue(x) ==
    CASE TypeOf(x) = "number" -> DecimalString(x.v)
      [] TypeOf(x) = "string" -> Quoted(Chars(x.v))
      [] TypeOf(x) = "boolean" -> Chars(IF x.v THEN "true" ELSE "false")
      [] TypeOf(x) = "object" -> ObjText(x.v)

RECURSIVE JSONmembers(_, _, _)
\* the "key":value members from field i on; first: no member was written yet
JSONmembers(message, i, first) ==
    IF i > Len(FieldOrder) THEN << >>
    ELSE LET key == FieldOrder[i]
         IN  IF message[key] = Undefined THEN JSONmembers(message, i + 1, first)
             ELSE (IF first THEN << >> ELSE <<44>>)
                  \o Quoted(Chars(key)) \o <<58>> \o JSONvalue(message[key])
                  \o JSONmembers(message, i + 1, FALSE)

JSONstringify(message) == <<123>> \o JSONmembers(message, 1, TRUE) \o <<125>>

\* the messages that travel over the wire in the model
WireMessages ==
    { [EmptyMessage EXCEPT !.seq = Num(1), !.type = Str("event"),
          !.event = Str("stopped"), !.body = Obj("x1")],
      [EmptyMessage EXCEPT !.seq = Num(2), !.type = Str("response"),
          !.command = Str("launch"), !.request_seq = Num(1),
          !.success = Bool(TRUE), !.body = Obj("x2")],
      [EmptyMessage EXCEPT !.seq = Num(3), !.type = Str("request"),
          !.command = Str("runInTerminal"), !.arguments = Obj("args")],
      [EmptyMessage EXCEPT !.seq = Num(4), !.type = Str("event"),
          !.event = Str("output"), !.body = Str("e_acute")],
      [EmptyMessage EXCEPT !.seq = Num(5), !.type = Str("event"),
          !.event = Str("output"), !.body = Str("euro")],
      [EmptyMessage EXCEPT !.seq = Num(6), !.type = Str("event"),
          !.event = Str("output"), !.body = Str("grinning")],
      [EmptyMessage EXCEPT !.seq = Num(1), !.type = Str("response"),
          !.command = Str("launch"), !.request_seq = Num(1),
          !.success = Bool(FALSE), !.message = Str("e_acute")],
      EmptyMessage }

\* JSON.parse on the texts of the model: the text of a wire message parses to
\* that message, every other text (a text cut short, a text with bytes of
\* another frame) is a syntax error
WireTexts == [m \in WireMessages |-> JSONstringify(m)]

JSONparse(text) ==
    LET hits == {m \in WireMessages : WireTexts[m] = text}
    IN  IF hits = {} THEN [ok |-> FALSE]
        ELSE [ok |-> TRUE, value |-> CHOOSE m \in hits : TRUE]

\* protocol.ts encodeMessage: a string
encodeMessage(message) ==
    LET body == JSONstringify(message)
        header == CONTENT_LENGTH_HEADER \o <<58, 32>> \o DecimalString(Len(body))
    IN  header \o TWO_CRLF \o body

(***************************************************************************)
(* The state: the fields of one StreamDebugClient object.                  *)
(***************************************************************************)
VARIABLES
    connection,             \* StreamDebugClient.connection is set
    nextSeq,                \* BaseDebugClient.nextSeq
    pendingRequests,        \* seq -> the promise its callback settles
    promises,               \* the promises sendRequest has returned
    eventListeners,         \* eventEmitter: event name -> the listeners in the
                            \* order they were added: [callback, once, handle]
                            \* (handle: which subscription added it)
    handles,                \* the Unsubscribable objects the application holds,
                            \* in the order onEvent/onReverseRequest returned them
    reverseRequestHandlers, \* command -> handler, or None
    running,                \* handler promises not settled yet, each with the
                            \* streams its request came from (from)
    written,                \* the messages written to outStream, in order
    delivered,              \* the callbacks the last call has called: event
                            \* listeners and callbacks of pending requests
    dispatched,             \* the messages the last handleData call passed to
                            \* handleMessage
    thrown,                 \* what the last call threw, or None
    logged,                 \* the lines the last call passed to log()
    answeredBy,             \* history: seq of a request -> the first Response
                            \* dispatched for it since it was sent
    buffer,                 \* StreamDebugClient.buffer (bytes)
    contentLength,          \* StreamDebugClient.contentLength
    inStream,               \* the bytes the adapter wrote that inStream has not
                            \* delivered yet
    streamed,               \* history: the bytes inStream delivered since
                            \* connectAdapter
    decoded,                \* history: the messages dispatched from them
    framed,                 \* history: the messages whose frames the adapter
                            \* wrote since connectAdapter
    fired,                  \* history: the handles held whose once listener
                            \* was called
    stream,                 \* connection.inStream/outStream: which pair of
                            \* streams is attached, or None
    writtenTo,              \* history: the outStream each message of
                            \* written was written to
    state,                  \* SocketDebugClient.state
    socket,                 \* SocketDebugClient.socket, or None
    attempts                \* the sockets of the connectAdapter calls that
                            \* wait for their connection

vars ==
    <<connection, nextSeq, pendingRequests, promises, eventListeners,
      reverseRequestHandlers, running, written, delivered, dispatched, thrown,
      logged, answeredBy, buffer, contentLength, handles, inStream, streamed,
      decoded, framed, fired, stream, writtenTo, state, socket, attempts>>

Cur ==
    [connection |-> connection, nextSeq |-> nextSeq,
     pendingRequests |-> pendingRequests, promises |-> promises,
     eventListeners |-> eventListeners,
     reverseRequestHandlers |-> reverseRequestHandlers, running |-> running,
     written |-> written, delivered |-> delivered, dispatched |-> dispatched,
     thrown |-> thrown, logged |-> logged, buffer |-> buffer,
     contentLength |-> contentLength, handles |-> handles, stream |-> stream,
     writtenTo |-> writtenTo, state |-> state, socket |-> socket,
     attempts |-> attempts]

Install(c) ==
    /\ logged' = c.logged
    /\ thrown' = c.thrown
    /\ connection' = c.connection
    /\ nextSeq' = c.nextSeq
    /\ pendingRequests' = c.pendingRequests
    /\ promises' = c.promises
    /\ eventListeners' = c.eventListeners
    /\ reverseRequestHandlers' = c.reverseRequestHandlers
    /\ running' = c.running
    /\ written' = c.written
    /\ delivered' = c.delivered
    /\ dispatched' = c.dispatched
    /\ buffer' = c.buffer
    /\ contentLength' = c.contentLength
    /\ handles' = c.handles
    /\ stream' = c.stream
    /\ writtenTo' = c.writtenTo
    /\ state' = c.state
    /\ socket' = c.socket
    /\ attempts' = c.attempts

\* a call starts with no exception, no listener calls and no log lines recorded
Enter(c) ==
    [c EXCEPT !.thrown = None, !.delivered = << >>, !.dispatched = << >>,
              !.logged = << >>]
Throw(c, error) == [c EXCEPT !.thrown = error]
\* BaseDebugClient.log: the model keeps which line was logged
log(c, line) == [c EXCEPT !.logged = Append(@, line)]

(***************************************************************************)
(* Map and promise helpers.                                                *)
(***************************************************************************)
MapSet(map, key, value) ==
    [k \in DOMAIN map \cup {key} |-> IF k = key THEN value ELSE map[k]]
MapDelete(map, key) == [k \in DOMAIN map \ {key} |-> map[k]]
MapHas(map, key) == key \in DOMAIN map

NewPromise == [state |-> "pending", value |-> Undefined, settles |-> 0]

\* resolve/reject of a promise: only the first call settles it; settles counts
\* the calls
Settle(c, p, outcome, value) ==
    [c EXCEPT !.promises[p] =
        IF @.state = "pending"
        THEN [state |-> outcome, value |-> value, settles |-> @.settles + 1]
        ELSE [@ EXCEPT !.settles = @ + 1]]

(***************************************************************************)
(* StreamDebugClient.sendMessage and the BaseDebugClient methods.          *)
(***************************************************************************)
\* stream-debug-client.ts 62-66: outStream.write(encodeMessage(message));
\* written keeps the message whose encoding was written
sendMessage(c, message) ==
    IF ~c.connection
    THEN Throw(c, "not connected")
    ELSE [c EXCEPT !.written = Append(@, message),
                   !.writtenTo = Append(@, c.stream)]

\* mutant: return ++this.nextSeq
getNextSeq_PreIncrement(c) ==
    [value |-> c.nextSeq + 1, c |-> [c EXCEPT !.nextSeq = @ + 1]]

\* getNextSeq: return this.nextSeq++
getNextSeq(c) == [value |-> c.nextSeq, c |-> [c EXCEPT !.nextSeq = @ + 1]]

\* mutant: the promise is resolved with the whole response
requestCallback_WholeResponse(c, p, response) ==
    IF response.success = Bool(TRUE)
    THEN Settle(log(c, "received response"), p, "fulfilled", response)
    ELSE Settle(log(c, "received error response"), p, "rejected",
                ErrorOf(response.message))

\* mutant: success is not looked at
requestCallback_IgnoresSuccess(c, p, response) ==
    Settle(log(c, "received response"), p, "fulfilled", response.body)

\* the call of the callback stored for promise p, as delivered keeps it
Called(c, p, response) ==
    [c EXCEPT !.delivered =
        Append(@, [callback |-> "pendingRequests", body |-> response.body,
                   handle |-> p, during |-> Len(c.dispatched)])]

\* the callback sendRequest stores in pendingRequests for promise p
requestCallback(c, p, response) ==
    IF response.success = Bool(TRUE)
    THEN Settle(log(Called(c, p, response), "received response"), p,
                "fulfilled", response.body)
    ELSE Settle(log(Called(c, p, response), "received error response"), p,
                "rejected", ErrorOf(response.message))

\* BaseDebugClient.sendRequest
baseSendRequest(c, command, args) ==
    LET n == getNextSeq(c)
        seq == n.value
        request == [EmptyMessage EXCEPT !.seq = Num(seq), !.type = Str("request"),
                       !.command = Str(command), !.arguments = args]
        c1 == [n.c EXCEPT !.promises = MapSet(@, seq, NewPromise),
                          !.pendingRequests = MapSet(@, seq, seq)]
    IN  sendMessage(log(c1, "sending request"), request)

\* mutant: request_seq is the seq of the response itself
baseSendResponse_OwnSeq(c, request, responseBody) ==
    LET n == getNextSeq(c)
        response == [EmptyMessage EXCEPT !.type = Str("response"),
                        !.seq = Num(n.value), !.command = request.command,
                        !.request_seq = Num(n.value), !.success = Bool(TRUE),
                        !.body = responseBody]
    IN  sendMessage(log(n.c, "sending response"), response)

\* BaseDebugClient.sendResponse
baseSendResponse(c, request, responseBody) ==
    LET n == getNextSeq(c)
        response == [EmptyMessage EXCEPT !.type = Str("response"),
                        !.seq = Num(n.value), !.command = request.command,
                        !.request_seq = request.seq, !.success = Bool(TRUE),
                        !.body = responseBody]
    IN  sendMessage(log(n.c, "sending response"), response)

\* BaseDebugClient.sendErrorResponse (the optional error detail is not passed)
baseSendErrorResponse(c, request, message) ==
    LET n == getNextSeq(c)
        response == [EmptyMessage EXCEPT !.type = Str("response"),
                        !.seq = Num(n.value), !.command = request.command,
                        !.request_seq = request.seq, !.success = Bool(FALSE),
                        !.message = message, !.body = Obj("error")]
    IN  sendMessage(log(n.c, "sending error response"), response)

\* StreamDebugClient.sendRequest / sendResponse / sendErrorResponse: the guard,
\* then the base method
\* mutant: no guard before the base method
sendRequest_NoGuard(c, command, args) == baseSendRequest(c, command, args)

sendRequest(c, command, args) ==
    IF ~c.connection THEN Throw(c, "not connected")
    ELSE baseSendRequest(c, command, args)

sendResponse(c, request, responseBody) ==
    IF ~c.connection THEN Throw(c, "not connected")
    ELSE baseSendResponse(c, request, responseBody)

sendErrorResponse(c, request, message) ==
    IF ~c.connection THEN Throw(c, "not connected")
    ELSE baseSendErrorResponse(c, request, message)

(***************************************************************************)
(* StreamDebugClient.connectAdapter / disconnectAdapter.                   *)
(***************************************************************************)
Number(n) == [t |-> "number", nan |-> FALSE, v |-> n]
NaN == [t |-> "number", nan |-> TRUE]
NoBytes == <<>>

connectAdapter(c, streams) ==
    IF c.connection THEN Throw(c, "already connected")
    ELSE [c EXCEPT !.connection = TRUE, !.stream = streams]

\* mutant: the pending requests are dropped on disconnect
disconnectAdapter_ClearsPending(c) ==
    IF c.connection
    THEN [log(c, "Disconnecting") EXCEPT !.connection = FALSE,
             !.stream = None, !.buffer = NoBytes, !.contentLength = Number(-1),
             !.pendingRequests = << >>]
    ELSE c

\* mutant: the decode state is kept over the disconnect
disconnectAdapter_KeepsDecodeState(c) ==
    IF c.connection
    THEN [log(c, "Disconnecting") EXCEPT !.connection = FALSE,
             !.stream = None]
    ELSE c

disconnectAdapter(c) ==
    IF c.connection
    THEN [log(c, "Disconnecting") EXCEPT !.connection = FALSE,
             !.stream = None, !.buffer = NoBytes, !.contentLength = Number(-1)]
    ELSE c

(***************************************************************************)
(* The event emitter (Node's events.EventEmitter) behind onEvent.          *)
(***************************************************************************)
\* the elements of seq at the positions in keep, in their order
KeepAt(seq, keep) ==
    LET at == SelectSeq([i \in 1..Len(seq) |-> i], LAMBDA i : i \in keep)
    IN  [k \in 1..Len(at) |-> seq[at[k]]]

\* emit: the listeners of the name are called in the order they were added,
\* with the body; a once listener is removed before it is called; emit has no
\* try/catch, so a listener that throws ends the loop and emit throws.
\* delivered keeps each call: the callback, the body, the subscription, and
\* how many messages the running handleData call had dispatched (during)
\* a listener may call disconnectAdapter, which the client sees at once
emit(c, event, body) ==
    LET listeners == c.eventListeners[event]
        throwing == {i \in 1..Len(listeners) : Throws(listeners[i].callback)}
        last == IF throwing = {} THEN Len(listeners)
                ELSE CHOOSE i \in throwing : \A j \in throwing : i <= j
        kept == {i \in 1..Len(listeners) : i > last \/ ~listeners[i].once}
        c1 == [c EXCEPT
                 !.delivered = @ \o [i \in 1..last |->
                                       [callback |-> listeners[i].callback,
                                        body |-> body,
                                        handle |-> listeners[i].handle,
                                        during |-> Len(c.dispatched)]],
                 !.eventListeners[event] = KeepAt(listeners, kept)]
        c2 == IF \E i \in 1..last : Disconnects(listeners[i].callback)
              THEN disconnectAdapter(c1)
              ELSE c1
    IN  IF throwing = {} THEN c2 ELSE Throw(c2, "callback failed")

\* mutant: every listener of the event is removed
off_RemovesAll(c, event, callback) == [c EXCEPT !.eventListeners[event] = << >>]

\* off: the most recently added listener for the callback is removed
RemoveAt(seq, i) == SubSeq(seq, 1, i - 1) \o SubSeq(seq, i + 1, Len(seq))
off(c, event, callback) ==
    LET listeners == c.eventListeners[event]
        found == {i \in 1..Len(listeners) : listeners[i].callback = callback}
    IN  IF found = {} THEN c
        ELSE LET last == CHOOSE i \in found : \A j \in found : j <= i
             IN  [c EXCEPT !.eventListeners[event] = RemoveAt(listeners, last)]

\* BaseDebugClient.onEvent: eventEmitter.once or eventEmitter.on, and the
\* Unsubscribable returned
onEvent(c, event, callback, once) ==
    [c EXCEPT !.eventListeners[event] =
                  Append(@, [callback |-> callback, once |-> once,
                             handle |-> Len(c.handles) + 1]),
              !.handles = Append(@, [kind |-> "event", name |-> event,
                                     callback |-> callback, once |-> once])]

\* BaseDebugClient.onReverseRequest and the unsubscribe it returns
onReverseRequest(c, command, callback) ==
    [c EXCEPT !.reverseRequestHandlers[command] = callback,
              !.handles = Append(@, [kind |-> "request", name |-> command,
                                     callback |-> callback, once |-> FALSE])]

\* mutant: the entry is deleted whatever handler it holds
unsubscribeReverseRequest_Always(c, command, callback) ==
    [c EXCEPT !.reverseRequestHandlers[command] = None]

unsubscribeReverseRequest(c, command, callback) ==
    IF c.reverseRequestHandlers[command] = callback
    THEN [c EXCEPT !.reverseRequestHandlers[command] = None]
    ELSE c

\* unsubscribe() of the Unsubscribable handle: the closure holds the name and
\* the callback it was made for
unsubscribe(c, handle) ==
    IF handle.kind = "event" THEN off(c, handle.name, handle.callback)
    ELSE unsubscribeReverseRequest(c, handle.name, handle.callback)

\* the application drops the Unsubscribable objects it was given
dropHandles(c) == [c EXCEPT !.handles = << >>]

(***************************************************************************)
(* BaseDebugClient.handleMessage.                                          *)
(***************************************************************************)
HandlerFor(c, command) ==
    IF command \in DOMAIN c.reverseRequestHandlers
    THEN c.reverseRequestHandlers[command]
    ELSE None

\* mutant: the entry is not deleted when its callback is called
handleResponse_KeepsEntry(c, message) ==
    LET rs == message.request_seq.v
    IN  IF MapHas(c.pendingRequests, rs)
        THEN requestCallback(c, c.pendingRequests[rs], message)
        ELSE log(c, "response not matching any request")

\* mutant: the callback is called without checking that there is one
handleResponse_NoCheck(c, message) ==
    LET rs == message.request_seq.v
        c1 == [c EXCEPT !.pendingRequests = MapDelete(@, rs)]
    IN  IF MapHas(c.pendingRequests, rs)
        THEN requestCallback(c1, c.pendingRequests[rs], message)
        ELSE Throw(c1, "callback is not a function")

\* mutant: the oldest pending entry is taken, whatever the request_seq
handleResponse_Oldest(c, message) ==
    IF DOMAIN c.pendingRequests # {}
    THEN LET rs == CHOOSE k \in DOMAIN c.pendingRequests :
                       \A j \in DOMAIN c.pendingRequests : k <= j
             c1 == [c EXCEPT !.pendingRequests = MapDelete(@, rs)]
         IN  requestCallback(c1, c.pendingRequests[rs], message)
    ELSE log(c, "response not matching any request")

handleResponse(c, message) ==
    LET rs == message.request_seq.v
    IN  IF MapHas(c.pendingRequests, rs)
        THEN LET callback == c.pendingRequests[rs]
                 c1 == [c EXCEPT !.pendingRequests = MapDelete(@, rs)]
             IN  requestCallback(c1, callback, message)
        ELSE log(c, "response not matching any request")

\* mutant: a request without handler is answered with a failure Response
handleRequest_AnswersUnhandled(c, message) ==
    LET handler == HandlerFor(c, message.command.v)
    IN  IF handler # None
        THEN IF Throws(handler)
             THEN Throw(log(c, "received request"), "handler failed")
             ELSE [log(c, "received request") EXCEPT !.running =
                      Append(@, [handler |-> handler, request |-> message,
                                 args |-> message.arguments,
                                 from |-> c.stream])]
        ELSE sendErrorResponse(log(c, "no handler is registered"), message,
                               Str("no handler"))

\* handler(message.arguments) is called inside handleMessage: a handler that
\* throws there returns no promise, and nothing is chained to answer for it
handleRequest(c, message) ==
    LET handler == HandlerFor(c, message.command.v)
    IN  IF handler # None
        THEN IF Throws(handler)
             THEN Throw(log(c, "received request"), "handler failed")
             ELSE [log(c, "received request") EXCEPT !.running =
                      Append(@, [handler |-> handler, request |-> message,
                                 args |-> message.arguments,
                                 from |-> c.stream])]
        ELSE log(c, "no handler is registered")

handleMessage_ThrowsOnUnknown(c, message) ==
    IF isResponse(message) THEN handleResponse(c, message)
    ELSE IF isEvent(message)
         THEN emit(log(c, "received event"), message.event.v, message.body)
    ELSE IF isRequest(message) THEN handleRequest(c, message)
    ELSE Throw(log(c, "message of unknown type"), "unknown type")

handleMessage(c, message) ==
    IF isResponse(message) THEN handleResponse(c, message)
    ELSE IF isEvent(message)
         THEN emit(log(c, "received event"), message.event.v, message.body)
    ELSE IF isRequest(message) THEN handleRequest(c, message)
    ELSE log(c, "message of unknown type")

\* mutant: the requests are answered in the order they arrived in
handlerSettled_AnswersOldest(c, i, ok, result) ==
    LET request == c.running[1].request
        c1 == [c EXCEPT !.running = RemoveAt(@, 1)]
        c2 == IF ok THEN sendResponse(c1, request, result) ELSE c1
    IN  IF ok /\ c2.thrown = None THEN c2
        ELSE sendErrorResponse([c2 EXCEPT !.thrown = None], request,
                               IF ok THEN Str(c2.thrown) ELSE result)

\* mutant: the error response is sent after the success response as well
handlerSettled_CatchesAlways(c, i, ok, result) ==
    LET request == c.running[i].request
        c1 == [c EXCEPT !.running = RemoveAt(@, i)]
        c2 == IF ok THEN sendResponse(c1, request, result) ELSE c1
    IN  sendErrorResponse([c2 EXCEPT !.thrown = None], request,
                          IF ok THEN Str("sent") ELSE result)

\* the promise a handler returned settles: .then(sendResponse) or, on a
\* rejection of the handler or of sendResponse, .catch(sendErrorResponse)
handlerSettled(c, i, ok, result) ==
    LET request == c.running[i].request
        c1 == [c EXCEPT !.running = RemoveAt(@, i)]
        c2 == IF ok THEN sendResponse(c1, request, result) ELSE c1
    IN  IF ok /\ c2.thrown = None THEN c2
        ELSE sendErrorResponse([c2 EXCEPT !.thrown = None], request,
                               IF ok THEN Str(c2.thrown) ELSE result)

(***************************************************************************)
(* StreamDebugClient.handleData: the decoder of the inbound byte stream.   *)
(***************************************************************************)
\* buffer.indexOf(pattern): the offset of the first occurrence, or -1
IndexOf(bytes, pattern) ==
    LET at == {i \in 0..(Len(bytes) - Len(pattern)) :
                  SubSeq(bytes, i + 1, i + Len(pattern)) = pattern}
    IN  IF at = {} THEN -1 ELSE CHOOSE i \in at : \A j \in at : i <= j

RECURSIVE Split(_, _)
\* string.split(separator) for a separator string
Split(str, separator) ==
    LET idx == IndexOf(str, separator)
    IN  IF idx = -1 THEN <<str>>
        ELSE <<SubSeq(str, 1, idx)>>
             \o Split(SubSeq(str, idx + Len(separator) + 1, Len(str)), separator)

\* the length of the run of spaces that starts at offset i
RECURSIVE Spaces(_, _)
Spaces(str, i) ==
    IF i + 1 <= Len(str) /\ str[i + 1] = 32 THEN 1 + Spaces(str, i + 1) ELSE 0

RECURSIVE SplitColonSpaces(_)
\* string.split(/: +/): a colon and all the spaces after it, one at least
SplitColonSpaces(str) ==
    LET at == {i \in 0..(Len(str) - 2) : str[i + 1] = 58 /\ str[i + 2] = 32}
    IN  IF at = {} THEN <<str>>
        ELSE LET idx == CHOOSE i \in at : \A j \in at : i <= j
                 after == idx + 1 + Spaces(str, idx + 1)
             IN  <<SubSeq(str, 1, idx)>>
                 \o SplitColonSpaces(SubSeq(str, after + 1, Len(str)))

IsDigit(u) == u >= 48 /\ u <= 57
IsBlank(u) == u \in {9, 10, 11, 12, 13, 32}

RECURSIVE TrimLeft(_)
TrimLeft(str) ==
    IF str # << >> /\ IsBlank(str[1]) THEN TrimLeft(Tail(str)) ELSE str
RECURSIVE TrimRight(_)
TrimRight(str) ==
    IF str # << >> /\ IsBlank(str[Len(str)])
    THEN TrimRight(SubSeq(str, 1, Len(str) - 1)) ELSE str

RECURSIVE DigitsValue(_)
DigitsValue(str) ==
    IF str = << >> THEN 0
    ELSE DigitsValue(SubSeq(str, 1, Len(str) - 1)) * 10 + (str[Len(str)] - 48)

\* mutant: what is no number counts as 0, as (+pair[1] || 0) would give
ToNumber_OrZero(x) ==
    IF TypeOf(x) = "undefined" THEN Number(0)
    ELSE LET str == TrimRight(TrimLeft(x.units))
             signed == str # << >> /\ str[1] \in {43, 45}
             digits == IF signed THEN Tail(str) ELSE str
         IN  IF str = << >> THEN Number(0)
             ELSE IF digits # << >> /\ \A i \in 1..Len(digits) : IsDigit(digits[i])
             THEN Number(IF signed /\ str[1] = 45
                         THEN 0 - DigitsValue(digits) ELSE DigitsValue(digits))
             ELSE Number(0)

\* the unary plus on pair[1]: undefined and a text that is no number give NaN,
\* a blank text gives 0, decimal digits with an optional sign give their value
\* (the other forms of a numeric literal, with a point, an exponent or a radix
\* prefix, do not occur in the headers of the model)
ToNumber(x) ==
    IF TypeOf(x) = "undefined" THEN NaN
    ELSE LET str == TrimRight(TrimLeft(x.units))
             signed == str # << >> /\ str[1] \in {43, 45}
             digits == IF signed THEN Tail(str) ELSE str
         IN  IF str = << >> THEN Number(0)
             ELSE IF digits # << >> /\ \A i \in 1..Len(digits) : IsDigit(digits[i])
             THEN Number(IF signed /\ str[1] = 45
                         THEN 0 - DigitsValue(digits) ELSE DigitsValue(digits))
             ELSE NaN

RECURSIVE HeaderLength_EndsWith(_, _, _)
\* mutant: a line whose name ends with Content-Length is taken too
HeaderLength_EndsWith(lines, i, length) ==
    IF i > Len(lines) THEN length
    ELSE LET pair == SplitColonSpaces(lines[i])
             n == Len(CONTENT_LENGTH_HEADER)
         IN  IF /\ Len(pair[1]) >= n
                /\ SubSeq(pair[1], Len(pair[1]) - n + 1, Len(pair[1]))
                      = CONTENT_LENGTH_HEADER
             THEN HeaderLength_EndsWith(lines, i + 1,
                      ToNumber(IF Len(pair) >= 2 THEN Text(pair[2]) ELSE Undefined))
             ELSE HeaderLength_EndsWith(lines, i + 1, length)

RECURSIVE HeaderLength_AnyCase(_, _, _)
\* mutant: the name of the header is compared without regard to case
HeaderLength_AnyCase(lines, i, length) ==
    IF i > Len(lines) THEN length
    ELSE LET pair == SplitColonSpaces(lines[i])
             lower(str) == [j \in 1..Len(str) |->
                              IF str[j] >= 65 /\ str[j] <= 90
                              THEN str[j] + 32 ELSE str[j]]
         IN  IF lower(pair[1]) = lower(CONTENT_LENGTH_HEADER)
             THEN HeaderLength_AnyCase(lines, i + 1,
                      ToNumber(IF Len(pair) >= 2 THEN Text(pair[2]) ELSE Undefined))
             ELSE HeaderLength_AnyCase(lines, i + 1, length)

RECURSIVE HeaderLength(_, _, _)
\* the loop over the header lines: the last Content-Length line decides
HeaderLength(lines, i, length) ==
    IF i > Len(lines) THEN length
    ELSE LET pair == SplitColonSpaces(lines[i])
         IN  IF pair[1] = CONTENT_LENGTH_HEADER
             THEN HeaderLength(lines, i + 1,
                      ToNumber(IF Len(pair) >= 2 THEN Text(pair[2]) ELSE Undefined))
             ELSE HeaderLength(lines, i + 1, length)

\* mutant: no try / catch around JSON.parse and handleMessage
handleBody_NoCatch(c, body) ==
    LET parsed == JSONparse(body)
    IN  IF ~parsed.ok THEN Throw(c, "Unexpected token")
        ELSE handleMessage([c EXCEPT !.dispatched = Append(@, parsed.value)],
                           parsed.value)

\* try { this.handleMessage(JSON.parse(body)) } catch (e) { this.log(...) }
handleBody(c, body) ==
    LET parsed == JSONparse(body)
    IN  IF ~parsed.ok THEN log(c, "Error handling message")
        ELSE LET c1 == handleMessage(
                          [c EXCEPT !.dispatched = Append(@, parsed.value)],
                          parsed.value)
             IN  IF c1.thrown = None THEN c1
                 ELSE log([c1 EXCEPT !.thrown = None], "Error handling message")

RECURSIVE decodeLoop_LastFirst(_)
\* mutant: the messages after a complete body are handled before it
decodeLoop_LastFirst(c) ==
    IF ~c.contentLength.nan /\ c.contentLength.v >= 0
    THEN IF Len(c.buffer) >= c.contentLength.v
         THEN LET n == c.contentLength.v
                  body == Utf8Decode(SubSeq(c.buffer, 1, n))
                  rest == decodeLoop_LastFirst(
                            [c EXCEPT !.buffer = SubSeq(@, n + 1, Len(@)),
                                      !.contentLength = Number(-1)])
              IN  IF Len(body) > 0 THEN handleBody(rest, body) ELSE rest
         ELSE c
    ELSE LET idx == IndexOf(c.buffer, TWO_CRLF)
         IN  IF idx # -1
             THEN LET header == Utf8Decode(SubSeq(c.buffer, 1, idx))
                      lines == Split(header, CRLF)
                  IN  decodeLoop_LastFirst(
                        [c EXCEPT
                           !.contentLength = HeaderLength(lines, 1, @),
                           !.buffer = SubSeq(@, idx + Len(TWO_CRLF) + 1, Len(@))])
             ELSE c

RECURSIVE decodeLoop_ParsesEmpty(_)
\* mutant: an empty body is parsed like any other
decodeLoop_ParsesEmpty(c) ==
    IF ~c.contentLength.nan /\ c.contentLength.v >= 0
    THEN IF Len(c.buffer) >= c.contentLength.v
         THEN LET n == c.contentLength.v
                  body == Utf8Decode(SubSeq(c.buffer, 1, n))
                  c1 == [c EXCEPT !.buffer = SubSeq(@, n + 1, Len(@)),
                                  !.contentLength = Number(-1)]
              IN  decodeLoop_ParsesEmpty(handleBody(c1, body))
         ELSE c
    ELSE LET idx == IndexOf(c.buffer, TWO_CRLF)
         IN  IF idx # -1
             THEN LET header == Utf8Decode(SubSeq(c.buffer, 1, idx))
                      lines == Split(header, CRLF)
                  IN  decodeLoop_ParsesEmpty(
                        [c EXCEPT
                           !.contentLength = HeaderLength(lines, 1, @),
                           !.buffer = SubSeq(@, idx + Len(TWO_CRLF) + 1, Len(@))])
             ELSE c

RECURSIVE decodeLoop(_)
\* the for (;;) loop of handleData
decodeLoop(c) ==
    IF ~c.contentLength.nan /\ c.contentLength.v >= 0
    THEN IF Len(c.buffer) >= c.contentLength.v
         THEN LET n == c.contentLength.v
                  body == Utf8Decode(SubSeq(c.buffer, 1, n))
                  c1 == [c EXCEPT !.buffer = SubSeq(@, n + 1, Len(@)),
                                  !.contentLength = Number(-1)]
              IN  decodeLoop(IF Len(body) > 0 THEN handleBody(c1, body) ELSE c1)
         ELSE c
    ELSE LET idx == IndexOf(c.buffer, TWO_CRLF)
         IN  IF idx # -1
             THEN LET header == Utf8Decode(SubSeq(c.buffer, 1, idx))
                      lines == Split(header, CRLF)
                  IN  decodeLoop(
                        [c EXCEPT
                           !.contentLength = HeaderLength(lines, 1, @),
                           !.buffer = SubSeq(@, idx + Len(TWO_CRLF) + 1, Len(@))])
             ELSE c

\* mutant: the header block is not sliced off the buffer
iteration_KeepsHeader(c) ==
    IF ~c.contentLength.nan /\ c.contentLength.v >= 0
    THEN IF Len(c.buffer) >= c.contentLength.v
         THEN LET n == c.contentLength.v
                  body == Utf8Decode(SubSeq(c.buffer, 1, n))
                  c1 == [c EXCEPT !.buffer = SubSeq(@, n + 1, Len(@)),
                                  !.contentLength = Number(-1)]
              IN  [c |-> IF Len(body) > 0 THEN handleBody(c1, body) ELSE c1,
                   continues |-> TRUE]
         ELSE [c |-> c, continues |-> FALSE]
    ELSE LET idx == IndexOf(c.buffer, TWO_CRLF)
         IN  IF idx # -1
             THEN LET header == Utf8Decode(SubSeq(c.buffer, 1, idx))
                      lines == Split(header, CRLF)
                  IN  [c |-> [c EXCEPT
                                !.contentLength = HeaderLength(lines, 1, @)],
                       continues |-> TRUE]
             ELSE [c |-> c, continues |-> FALSE]

\* one pass through the body of the loop of handleData: the client after it,
\* and whether the pass ends in continue (TRUE) or in break (FALSE)
iteration(c) ==
    IF ~c.contentLength.nan /\ c.contentLength.v >= 0
    THEN IF Len(c.buffer) >= c.contentLength.v
         THEN LET n == c.contentLength.v
                  body == Utf8Decode(SubSeq(c.buffer, 1, n))
                  c1 == [c EXCEPT !.buffer = SubSeq(@, n + 1, Len(@)),
                                  !.contentLength = Number(-1)]
              IN  [c |-> IF Len(body) > 0 THEN handleBody(c1, body) ELSE c1,
                   continues |-> TRUE]
         ELSE [c |-> c, continues |-> FALSE]
    ELSE LET idx == IndexOf(c.buffer, TWO_CRLF)
         IN  IF idx # -1
             THEN LET header == Utf8Decode(SubSeq(c.buffer, 1, idx))
                      lines == Split(header, CRLF)
                  IN  [c |-> [c EXCEPT
                                !.contentLength = HeaderLength(lines, 1, @),
                                !.buffer = SubSeq(@, idx + Len(TWO_CRLF) + 1,
                                                  Len(@))],
                       continues |-> TRUE]
             ELSE [c |-> c, continues |-> FALSE]

\* mutant: the bytes kept from earlier chunks are forgotten
handleData_NoConcat(c, data) == decodeLoop([c EXCEPT !.buffer = data])

handleData(c, data) == decodeLoop([c EXCEPT !.buffer = @ \o data])

(***************************************************************************)
(* SocketDebugClient: connectAdapter opens a socket and waits for it.  The *)
(* call is split where it awaits: socketConnectAdapter is the call up to   *)
(* the await, onConnect and onError are the callbacks of the socket        *)
(* followed by the rest of the call they wake, the finally block included. *)
(***************************************************************************)

\* the sockets net.createConnection may return
Sockets == {"socket1", "socket2"}

socketConnectAdapter(c, newSocket) ==
    IF c.state # Disconnected
    THEN Throw([c EXCEPT !.state = IF @ = Connecting THEN Disconnected ELSE @],
               IF c.state = Connecting THEN "already 'Connecting'"
               ELSE "already 'Connected'")
    ELSE [log(c, "Connecting...") EXCEPT !.state = Connecting,
                                         !.attempts = @ \cup {newSocket}]

\* the connect callback of net.createConnection: when super.connectAdapter
\* throws, resolve is not reached and the call waits for ever
onConnect(c, s) ==
    LET c1 == connectAdapter([c EXCEPT !.attempts = @ \ {s}], s)
    IN  IF c1.thrown # None THEN c1
        ELSE [log(c1, "Connected") EXCEPT !.socket = s, !.state = Connected]

\* the error listener of a socket that is not connected yet: the call is
\* rejected and its finally block runs
onError(c, s) ==
    [log(c, "Socket error") EXCEPT
        !.attempts = @ \ {s},
        !.state = IF @ = Connecting THEN Disconnected ELSE @]

socketDisconnectAdapter(c) ==
    IF c.socket # None
    THEN [disconnectAdapter(c) EXCEPT !.socket = None]
    ELSE c

socketSendRequest(c, command, args) ==
    IF c.state # Connected THEN Throw(c, "not connected")
    ELSE sendRequest(c, command, args)

(***************************************************************************)
(* The client driven one message at a time.                                *)
(***************************************************************************)
Init ==
    /\ connection = FALSE
    /\ nextSeq = 1
    /\ pendingRequests = << >>
    /\ promises = << >>
    /\ eventListeners = [e \in EventNames |-> << >>]
    /\ reverseRequestHandlers = [cmd \in ReverseCommands |-> None]
    /\ running = << >>
    /\ written = << >>
    /\ delivered = << >>
    /\ dispatched = << >>
    /\ thrown = None
    /\ logged = << >>
    /\ answeredBy = << >>
    /\ buffer = NoBytes
    /\ contentLength = Number(-1)
    /\ handles = << >>
    /\ inStream = NoBytes
    /\ streamed = NoBytes
    /\ decoded = << >>
    /\ framed = << >>
    /\ fired = {}
    /\ stream = None
    /\ writtenTo = << >>
    /\ state = Disconnected
    /\ socket = None
    /\ attempts = {}

\* the seq values of the requests written so far
SentSeqs ==
    {written[i].seq.v : i \in {j \in 1..Len(written) : isRequest(written[j])}}

\* the model stops allocating and writing at MaxSeq
SeqLeft(c) == c.connection => c.nextSeq <= MaxSeq /\ Len(c.written) < MaxSeq

\* fired after the step: the once listeners just called, of the handles held
Fired ==
    fired \cup {delivered'[i].handle : i \in
                  {j \in 1..Len(delivered') :
                      /\ delivered'[j].callback # "pendingRequests"
                      /\ delivered'[j].handle \in 1..Len(handles)
                      /\ handles[delivered'[j].handle].once}}

ConnectAdapter ==
    /\ Install(connectAdapter(Enter(Cur), FirstStreams))
    /\ UNCHANGED <<answeredBy, inStream, streamed, decoded, framed, fired>>

\* the streams of the connection are let go with it
DisconnectAdapter ==
    /\ Install(disconnectAdapter(Enter(Cur)))
    /\ inStream' = NoBytes
    /\ streamed' = NoBytes
    /\ decoded' = << >>
    /\ framed' = << >>
    /\ UNCHANGED <<answeredBy, fired>>

SendRequest ==
    \E command \in Commands :
        /\ SeqLeft(Cur)
        /\ Install(sendRequest(Enter(Cur), command, Obj("args")))
        /\ UNCHANGED <<answeredBy, inStream, streamed, decoded, framed, fired>>

\* the request the application answers by hand
AnsweredByHand ==
    [EmptyMessage EXCEPT !.seq = Num(1), !.type = Str("request"),
        !.command = Str("runInTerminal"), !.arguments = Obj("args")]

SendResponse ==
    /\ SeqLeft(Cur)
    /\ Install(sendResponse(Enter(Cur), AnsweredByHand, Obj("x1")))
    /\ UNCHANGED <<answeredBy, inStream, streamed, decoded, framed, fired>>

SendErrorResponse ==
    /\ SeqLeft(Cur)
    /\ Install(sendErrorResponse(Enter(Cur), AnsweredByHand, Str("bad")))
    /\ UNCHANGED <<answeredBy, inStream, streamed, decoded, framed, fired>>

SendMessage ==
    /\ SeqLeft(Cur)
    /\ Install(sendMessage(Enter(Cur),
           [EmptyMessage EXCEPT !.seq = Num(1), !.type = Str("event"),
               !.event = Str("stopped")]))
    /\ UNCHANGED <<answeredBy, inStream, streamed, decoded, framed, fired>>

\* the data listener is attached from connectAdapter to disconnectAdapter
HandleMessage ==
    \E message \in InboundMessages :
        /\ connection
        /\ isRequest(message) /\ HandlerFor(Cur, message.command.v) # None
              => /\ nextSeq + Len(running) <= MaxSeq
                 /\ Len(written) + Len(running) < MaxSeq
        /\ Install(handleMessage(Enter(Cur), message))
        /\ answeredBy' =
              IF /\ isResponse(message)
                 /\ message.request_seq.v \in SentSeqs \ DOMAIN answeredBy
              THEN MapSet(answeredBy, message.request_seq.v, message)
              ELSE answeredBy
        /\ fired' = Fired
        /\ UNCHANGED <<inStream, streamed, decoded, framed>>

HandlerSettled ==
    \E i \in 1..Len(running), ok \in BOOLEAN :
        /\ SeqLeft(Cur)
        /\ Install(handlerSettled(Enter(Cur), i, ok,
                                  IF ok THEN Obj("x1") ELSE Str("bad")))
        /\ UNCHANGED <<answeredBy, inStream, streamed, decoded, framed, fired>>

\* one listener at a time is subscribed here
OnEvent ==
    \E once \in BOOLEAN :
        /\ eventListeners["stopped"] = << >>
        /\ Install(dropHandles(onEvent(Enter(Cur), "stopped", "cb1", once)))
        /\ UNCHANGED <<answeredBy, inStream, streamed, decoded, framed, fired>>

OnReverseRequest ==
    \E command \in ReverseCommands :
        /\ Install(dropHandles(onReverseRequest(Enter(Cur), command, "h1")))
        /\ UNCHANGED <<answeredBy, inStream, streamed, decoded, framed, fired>>

Next ==
    \/ ConnectAdapter
    \/ DisconnectAdapter
    \/ SendRequest
    \/ SendResponse
    \/ SendErrorResponse
    \/ SendMessage
    \/ HandleMessage
    \/ HandlerSettled
    \/ OnEvent
    \/ OnReverseRequest

Spec == Init /\ [][Next]_vars

(***************************************************************************)
(* The client driven over the wire: whole frames made by encodeMessage     *)
(* arrive as chunks, and messages are written with sendMessage.            *)
(***************************************************************************)
RECURSIVE NoteResponses(_, _, _)
\* answeredBy after the messages msgs have been dispatched
NoteResponses(map, msgs, sent) ==
    IF msgs = << >> THEN map
    ELSE LET m == msgs[1]
         IN  NoteResponses(
               IF isResponse(m) /\ m.request_seq.v \in sent \ DOMAIN map
               THEN MapSet(map, m.request_seq.v, m) ELSE map,
               Tail(msgs), sent)

\* the chunk is what outStream.write(encodeMessage(message)) puts on a stream
WireSendMessage ==
    \E message \in WireMessages :
        /\ SeqLeft(Cur)
        /\ Install(sendMessage(Enter(Cur), message))
        /\ UNCHANGED <<answeredBy, inStream, streamed, decoded, framed, fired>>

HandleData ==
    \E message \in WireMessages :
        /\ connection
        /\ Install(handleData(Enter(Cur), Utf8Encode(encodeMessage(message))))
        /\ answeredBy' = NoteResponses(answeredBy, dispatched', SentSeqs)
        /\ fired' = Fired
        /\ UNCHANGED <<inStream, streamed, decoded, framed>>

NextFramer ==
    \/ ConnectAdapter
    \/ DisconnectAdapter
    \/ WireSendMessage
    \/ HandleData

SpecFramer == Init /\ [][NextFramer]_vars

(***************************************************************************)
(* The decoder fed from a stream: the adapter writes well-formed frames,   *)
(* inStream delivers the bytes in chunks cut anywhere.                     *)
(***************************************************************************)
\* the messages the adapter sends on the stream
StreamMessages ==
    { [EmptyMessage EXCEPT !.seq = Num(1), !.type = Str("event"),
          !.event = Str("stopped"), !.body = Obj("x1")],
      [EmptyMessage EXCEPT !.seq = Num(2), !.type = Str("response"),
          !.command = Str("launch"), !.request_seq = Num(1),
          !.success = Bool(TRUE), !.body = Obj("x2")],
      [EmptyMessage EXCEPT !.seq = Num(3), !.type = Str("request"),
          !.command = Str("runInTerminal"), !.arguments = Obj("args")],
      [EmptyMessage EXCEPT !.seq = Num(4), !.type = Str("event"),
          !.event = Str("output"), !.body = Str("e_acute")],
      EmptyMessage }

\* a frame as handleData reads it: the Content-Length header with the number
\* of bytes of the body, CRLF CRLF, the UTF-8 bytes of the JSON text
Frame(message) ==
    LET body == Utf8Encode(JSONstringify(message))
    IN  Utf8Encode(CONTENT_LENGTH_HEADER \o <<58, 32>> \o DecimalString(Len(body))
                   \o TWO_CRLF)
        \o body

Frames == [message \in StreamMessages |-> Frame(message)]

\* the adapter writes one more frame
AdapterWrites ==
    \E message \in StreamMessages :
        /\ connection
        /\ Len(framed) < MaxFrames
        /\ inStream' = inStream \o Frames[message]
        /\ framed' = Append(framed, message)
        /\ UNCHANGED <<connection, nextSeq, pendingRequests, promises,
                       eventListeners, reverseRequestHandlers, running, written,
                       delivered, dispatched, thrown, logged, answeredBy, buffer,
                       contentLength, handles, streamed, decoded, fired,
                       stream, writtenTo, state, socket, attempts>>

\* the lengths of the chunk inStream may deliver next
ChunkSizes == {n \in 1..Len(inStream) : n <= MaxChunk \/ n = Len(inStream)}

\* inStream emits 'data' with its next n bytes
Data(n) ==
    /\ connection
    /\ Install(handleData(Enter(Cur), SubSeq(inStream, 1, n)))
    /\ inStream' = SubSeq(inStream, n + 1, Len(inStream))
    /\ streamed' = streamed \o SubSeq(inStream, 1, n)
    /\ decoded' = decoded \o dispatched'
    /\ answeredBy' = NoteResponses(answeredBy, dispatched', SentSeqs)
    /\ fired' = Fired
    /\ UNCHANGED framed

HandleChunk == \E n \in ChunkSizes : Data(n)

NextChunks ==
    \/ ConnectAdapter
    \/ DisconnectAdapter
    \/ AdapterWrites
    \/ HandleChunk

SpecChunks == Init /\ [][NextChunks]_vars

(***************************************************************************)
(* Whole data events: requests pending, listeners subscribed, and the      *)
(* stream delivers all it holds in one chunk.                              *)
(***************************************************************************)
\* onEvent called with an event name, a callback and a once flag of the sets
SubscribeOf(events, callbacks, onces) ==
    \E event \in events, callback \in callbacks, once \in onces :
        /\ Len(handles) < MaxHandles
        /\ Install(onEvent(Enter(Cur), event, callback, once))
        /\ UNCHANGED <<answeredBy, inStream, streamed, decoded, framed, fired>>

SubscribeStopped == SubscribeOf({"stopped"}, {"cb1", "cbThrows"}, {FALSE})

\* inStream emits 'data' with all the bytes it holds
HandleStream == inStream # NoBytes /\ Data(Len(inStream))

NextOrder ==
    \/ ConnectAdapter
    \/ DisconnectAdapter
    \/ SendRequest
    \/ SubscribeStopped
    \/ AdapterWrites
    \/ HandleStream

SpecOrder == Init /\ [][NextOrder]_vars

(***************************************************************************)
(* The event hub: subscriptions, unsubscriptions and events.               *)
(***************************************************************************)
Subscribe == SubscribeOf(EventNames, Callbacks, BOOLEAN)

\* unsubscribe() of a handle the application holds
Unsubscribe ==
    \E i \in 1..Len(handles) :
        /\ Install(unsubscribe(Enter(Cur), handles[i]))
        /\ UNCHANGED <<answeredBy, inStream, streamed, decoded, framed, fired>>

\* an event arrives in a data event of its own
DispatchEvent ==
    \E message \in InboundEvents :
        /\ connection
        /\ Install(handleMessage(Enter(Cur), message))
        /\ fired' = Fired
        /\ UNCHANGED <<answeredBy, inStream, streamed, decoded, framed>>

NextEvents ==
    \/ ConnectAdapter
    \/ Subscribe
    \/ Unsubscribe
    \/ DispatchEvent

SpecEvents == Init /\ [][NextEvents]_vars

(***************************************************************************)
(* The decoder fed by an adapter that also sends blocks that are no        *)
(* well-formed frames.                                                     *)
(***************************************************************************)
\* the blocks the adapter sends, by name; stopped is the JSON text of the
\* stopped event (ASCII) and n its length in decimal digits
Blocks ==
    LET message == CHOOSE m \in StreamMessages : m.event = Str("stopped")
        stopped == Utf8Encode(JSONstringify(message))
        n == DecimalString(Len(stopped))
        colon == <<58, 32>>
        other == <<88, 45, 79, 116, 104, 101, 114>> \o colon \o <<49>>
    IN  \* Content-Length: n CRLF CRLF stopped
        "event" :> Frames[message]
        \* Content-Length: notanumber CRLF CRLF {}
     @@ "nan" :> (CONTENT_LENGTH_HEADER \o colon
                    \o <<110, 111, 116, 97, 110, 117, 109, 98, 101, 114>>
                    \o TWO_CRLF \o <<123, 125>>)
        \* X-Other: 1 CRLF CRLF
     @@ "nolength" :> (other \o TWO_CRLF)
        \* Content-Length: 0 CRLF CRLF
     @@ "zero" :> (CONTENT_LENGTH_HEADER \o colon \o <<48>> \o TWO_CRLF)
        \* Content-Length: -5 CRLF CRLF
     @@ "negative" :> (CONTENT_LENGTH_HEADER \o colon \o <<45, 53>> \o TWO_CRLF)
        \* Content-Length: 2 CRLF CRLF {x
     @@ "badjson" :> (CONTENT_LENGTH_HEADER \o colon \o <<50>> \o TWO_CRLF
                        \o <<123, 120>>)
        \* X-Other: 1 CRLF Content-Length:   n CRLF X-Other: 1 CRLF CRLF stopped
     @@ "extra" :> (other \o CRLF \o CONTENT_LENGTH_HEADER \o <<58, 32, 32, 32>>
                      \o n \o CRLF \o other \o TWO_CRLF \o stopped)
        \* content-length: 2 CRLF CRLF {}
     @@ "lowercase" :> (<<99, 111, 110, 116, 101, 110, 116, 45, 108, 101, 110,
                          103, 116, 104>> \o colon \o <<50>> \o TWO_CRLF
                          \o <<123, 125>>)

\* the adapter writes one more block
AdapterWritesBlock ==
    \E b \in DOMAIN Blocks :
        /\ connection
        /\ Len(framed) < MaxFrames
        /\ inStream' = inStream \o Blocks[b]
        /\ framed' = Append(framed, b)
        /\ UNCHANGED <<connection, nextSeq, pendingRequests, promises,
                       eventListeners, reverseRequestHandlers, running, written,
                       delivered, dispatched, thrown, logged, answeredBy, buffer,
                       contentLength, handles, streamed, decoded, fired,
                       stream, writtenTo, state, socket, attempts>>

\* the application connects once
NextBlocks ==
    \/ ~connection /\ ConnectAdapter
    \/ AdapterWritesBlock
    \/ HandleChunk

SpecBlocks == Init /\ [][NextBlocks]_vars

(***************************************************************************)
(* The classification of parsed objects: every combination of the type    *)
(* tag and of the fields the three guards look at, each field absent, of   *)
(* the right type, or of a wrong type.                                     *)
(***************************************************************************)
Shapes ==
    { [EmptyMessage EXCEPT !.type = type, !.seq = seq, !.command = command,
          !.request_seq = request_seq, !.success = success, !.event = event]
        : type \in {Undefined, Str("request"), Str("response"), Str("event"),
                    Str("notification")},
          seq \in {Undefined, Num(1), Str("1")},
          command \in {Undefined, Str("runInTerminal"), Num(1)},
          request_seq \in {Undefined, Num(1), Str("1")},
          success \in {Undefined, Bool(TRUE), Str("true")},
          event \in {Undefined, Str("stopped"), Num(1)} }

\* handleData hands the object JSON.parse returned to handleMessage
Classify ==
    \E message \in Shapes :
        /\ connection
        /\ Install(handleMessage([Enter(Cur) EXCEPT !.dispatched = <<message>>],
                                 message))
        /\ UNCHANGED <<answeredBy, inStream, streamed, decoded, framed, fired>>

NextClassify ==
    \/ ~connection /\ ConnectAdapter
    \/ Classify

SpecClassify == Init /\ [][NextClassify]_vars

(***************************************************************************)
(* The reverse-request registry: handlers are registered and unregistered, *)
(* requests of the adapter are dispatched, and the promises the handlers   *)
(* returned settle.                                                        *)
(***************************************************************************)
\* onReverseRequest; the application keeps the handle it is given
Register ==
    \E command \in ReverseCommands, handler \in Handlers :
        /\ Len(handles) < MaxHandles
        /\ Install(onReverseRequest(Enter(Cur), command, handler))
        /\ UNCHANGED <<answeredBy, inStream, streamed, decoded, framed, fired>>

\* a request of the adapter arrives in a data event of its own
DispatchRequest ==
    \E message \in InboundRequests :
        /\ connection
        /\ nextSeq + Len(running) <= MaxSeq
        /\ Len(written) + Len(running) < MaxSeq
        /\ Install(handleMessage(Enter(Cur), message))
        /\ UNCHANGED <<answeredBy, inStream, streamed, decoded, framed, fired>>

\* the promise of a running handler is fulfilled with a body or rejected
\* with an Error
Settled ==
    \E i \in 1..Len(running), ok \in BOOLEAN :
        \E result \in IF ok THEN Bodies ELSE {Str(e) : e \in ErrorTexts} :
            /\ Install(handlerSettled(Enter(Cur), i, ok, result))
            /\ UNCHANGED <<answeredBy, inStream, streamed, decoded, framed,
                           fired>>

NextReverse ==
    \/ ConnectAdapter
    \/ DisconnectAdapter
    \/ SendRequest
    \/ Register
    \/ Unsubscribe
    \/ DispatchRequest
    \/ Settled

SpecReverse == Init /\ [][NextReverse]_vars

(***************************************************************************)
(* Reconnecting: the application connects the client to one pair of        *)
(* streams, disconnects it and connects it to another one, while requests  *)
(* of the adapter are handled and requests of the application are pending. *)
(* framed records the requests the adapters have sent, which they number   *)
(* 1, 2, ... so that request_seq identifies the request.                   *)
(***************************************************************************)

AdapterRequests ==
    { [EmptyMessage EXCEPT !.seq = Num(s), !.type = Str("request"),
          !.command = Str(cmd), !.arguments = Obj("args")]
        : s \in 1..MaxFrames, cmd \in ReverseCommands }

ConnectTo ==
    \E streams \in Streams :
        /\ Install(connectAdapter(Enter(Cur), streams))
        /\ UNCHANGED <<answeredBy, inStream, streamed, decoded, framed, fired>>

Disconnect ==
    /\ Install(disconnectAdapter(Enter(Cur)))
    /\ UNCHANGED <<answeredBy, inStream, streamed, decoded, framed, fired>>

\* a request of the adapter arrives in a data event of its own
ReceiveRequest ==
    \E message \in AdapterRequests :
        /\ connection
        /\ Len(framed) < MaxFrames
        /\ message.seq = Num(Len(framed) + 1)
        /\ Install(handleMessage(Enter(Cur), message))
        /\ framed' = Append(framed, message)
        /\ UNCHANGED <<answeredBy, inStream, streamed, decoded, fired>>

\* the application registers its handler once
RegisterOnce ==
    \E command \in ReverseCommands :
        /\ handles = << >>
        /\ Install(onReverseRequest(Enter(Cur), command, "h1"))
        /\ UNCHANGED <<answeredBy, inStream, streamed, decoded, framed, fired>>

\* a response of the adapter arrives in a data event of its own
ReceiveResponse ==
    \E message \in {m \in InboundResponses : m.body # Obj("x2")} :
        /\ connection
        /\ Install(handleMessage(Enter(Cur), message))
        /\ answeredBy' =
              IF message.request_seq.v \in SentSeqs \ DOMAIN answeredBy
              THEN MapSet(answeredBy, message.request_seq.v, message)
              ELSE answeredBy
        /\ UNCHANGED <<inStream, streamed, decoded, framed, fired>>

\* the promise of a running handler settles while the client can still number
\* its answer within the bound
SettledInTime ==
    /\ SeqLeft(Cur)
    /\ Settled

NextReconnect ==
    \/ ConnectTo
    \/ Disconnect
    \/ SendRequest
    \/ RegisterOnce
    \/ ReceiveRequest
    \/ ReceiveResponse
    \/ SettledInTime

SpecReconnect == Init /\ [][NextReconnect]_vars

(***************************************************************************)
(* Tearing down while messages are handled: listeners that disconnect the  *)
(* client or throw, handlers that throw or complete after the disconnect,  *)
(* and the adapter's frames delivered in one chunk.                        *)
(***************************************************************************)

SubscribeListener ==
    SubscribeOf({"stopped"}, {"cbDisconnects", "cbThrows"}, {FALSE})

RegisterHandler ==
    \E command \in ReverseCommands, handler \in {"h1", "hThrows"} :
        /\ Len(handles) < MaxHandles
        /\ reverseRequestHandlers[command] = None
        /\ Install(onReverseRequest(Enter(Cur), command, handler))
        /\ UNCHANGED <<answeredBy, inStream, streamed, decoded, framed, fired>>

\* the adapter writes one more frame: an event or a request
AdapterSends ==
    \E message \in {m \in StreamMessages : m.event = Str("stopped")
                                            \/ isRequest(m)} :
        /\ connection
        /\ Len(framed) < MaxFrames
        /\ inStream' = inStream \o Frames[message]
        /\ framed' = Append(framed, message)
        /\ UNCHANGED <<connection, nextSeq, pendingRequests, promises,
                       eventListeners, reverseRequestHandlers, running, written,
                       delivered, dispatched, thrown, logged, answeredBy, buffer,
                       contentLength, handles, streamed, decoded, fired,
                       stream, writtenTo, state, socket, attempts>>

\* inStream emits 'data' with all it holds while few handlers are running
HandleStreamInTime == Len(running) < MaxSeq /\ HandleStream

NextTeardown ==
    \/ ConnectAdapter
    \/ DisconnectAdapter
    \/ SubscribeListener
    \/ RegisterHandler
    \/ AdapterSends
    \/ HandleStreamInTime
    \/ SettledInTime

SpecTeardown == Init /\ [][NextTeardown]_vars

(***************************************************************************)
(* The SocketDebugClient: the application connects, disconnects and sends  *)
(* at any time, sockets connect or fail, the adapter answers.              *)
(***************************************************************************)

SocketConnectAdapter ==
    \E newSocket \in Sockets :
        /\ state = Disconnected => newSocket \notin attempts \cup {socket}
        /\ Install(socketConnectAdapter(Enter(Cur), newSocket))
        /\ UNCHANGED <<answeredBy, inStream, streamed, decoded, framed, fired>>

SocketConnects ==
    \E s \in attempts :
        /\ Install(onConnect(Enter(Cur), s))
        /\ UNCHANGED <<answeredBy, inStream, streamed, decoded, framed, fired>>

SocketFails ==
    \E s \in attempts :
        /\ Install(onError(Enter(Cur), s))
        /\ UNCHANGED <<answeredBy, inStream, streamed, decoded, framed, fired>>

SocketDisconnectAdapter ==
    /\ Install(socketDisconnectAdapter(Enter(Cur)))
    /\ UNCHANGED <<answeredBy, inStream, streamed, decoded, framed, fired>>

SocketSendRequest ==
    \E command \in Commands :
        /\ SeqLeft(Cur)
        /\ Install(socketSendRequest(Enter(Cur), command, Obj("args")))
        /\ UNCHANGED <<answeredBy, inStream, streamed, decoded, framed, fired>>

NextSocket ==
    \/ SocketConnectAdapter
    \/ SocketConnects
    \/ SocketFails
    \/ SocketDisconnectAdapter
    \/ SocketSendRequest
    \/ ReceiveResponse

SpecSocket == Init /\ [][NextSocket]_vars

(***************************************************************************)
(* Claims about request/response correlation and the sequence counter,     *)
(* checked under Spec.                                                     *)
(***************************************************************************)
\* a step that dispatches the inbound message to handleMessage
Dispatches(message) == connection /\ Install(handleMessage(Enter(Cur), message))

Pending(s) == MapHas(pendingRequests, s)
Answered(s) == MapHas(answeredBy, s)
\* the last call was handleMessage
Dispatched ==
    /\ logged # << >>
    /\ logged[1] \in {"received response", "received error response",
                      "response not matching any request", "received event",
                      "received request", "no handler is registered",
                      "message of unknown type"}

\* C1: once a success Response has been dispatched for a sent request (the
\* first Response with its seq as request_seq), the promise of that request
\* is fulfilled with exactly the body of that Response.
C1_SuccessCompletesWithBody ==
    \A s \in DOMAIN answeredBy :
        answeredBy[s].success = Bool(TRUE)
        => promises[s] =
              [state |-> "fulfilled", value |-> answeredBy[s].body, settles |-> 1]

C1_Witness ==
    /\ logged = <<"received response">>
    /\ \E s \in DOMAIN answeredBy :
          /\ answeredBy[s].body = Obj("x2")
          /\ promises[s].value = Obj("x2")
    /\ \E s \in DOMAIN pendingRequests : TRUE

\* C2: once a failure Response has been dispatched for a sent request, the
\* promise of that request is rejected, never fulfilled, and the Error it is
\* rejected with carries the message of that Response (the empty message when
\* the Response has none).
C2_FailureRejectsWithMessage ==
    \A s \in DOMAIN answeredBy :
        answeredBy[s].success = Bool(FALSE)
        => /\ promises[s].state = "rejected"
           /\ promises[s].settles = 1
           /\ promises[s].value.t = "error"
           /\ promises[s].value.message =
                 IF TypeOf(answeredBy[s].message) = "string"
                 THEN answeredBy[s].message ELSE Str("")

C2_Witness ==
    /\ logged = <<"received error response">>
    /\ \E s \in DOMAIN answeredBy :
          /\ answeredBy[s].message = Str("bad")
          /\ promises[s] = [state |-> "rejected", settles |-> 1,
                            value |-> [t |-> "error", message |-> Str("bad")]]

\* the outcome a Response gives the promise of its request
OutcomeOf(response) ==
    IF response.success = Bool(TRUE)
    THEN [state |-> "fulfilled", value |-> response.body, settles |-> 1]
    ELSE [state |-> "rejected", value |-> ErrorOf(response.message), settles |-> 1]

\* C3: resolve or reject is called at most once for every promise; after the
\* first Response for a request has been dispatched the request has no pending
\* entry, its promise keeps the outcome of that first Response whatever
\* Responses follow, and no dispatch of a message throws.
C3_SettledAtMostOnce ==
    /\ \A s \in DOMAIN promises : promises[s].settles <= 1
    /\ \A s \in DOMAIN answeredBy :
          ~Pending(s) /\ promises[s] = OutcomeOf(answeredBy[s])
    /\ Dispatched => thrown = None

\* a second Response, with another outcome, was dispatched for a settled request
C3_Witness ==
    /\ logged = <<"response not matching any request">>
    /\ thrown = None
    /\ \E s \in DOMAIN answeredBy : promises[s].state = "fulfilled"
    /\ \E s \in DOMAIN answeredBy : promises[s].state = "rejected"

\* what a call leaves alone when it only logs or throws
ClientUnchanged ==
    UNCHANGED <<connection, nextSeq, pendingRequests, promises, eventListeners,
                reverseRequestHandlers, running, written, buffer, contentLength>>

\* C4: dispatching a Response whose request_seq has no pending entry throws
\* nothing, calls no listener, and leaves the promises, the bytes written, the
\* pending table, the sequence counter, the event subscriptions, the
\* reverse-request registry and the running handlers as they were.
C4_UnmatchedResponseIsDropped ==
    [][\A m \in InboundResponses :
          ~Pending(m.request_seq.v) /\ Dispatches(m)
          => /\ thrown' = None
             /\ delivered' = << >>
             /\ ClientUnchanged]_vars

C4_Witness ==
    /\ logged = <<"response not matching any request">>
    /\ thrown = None
    /\ DOMAIN pendingRequests # {}
    /\ eventListeners["stopped"] # << >>
    /\ reverseRequestHandlers["runInTerminal"] # None
    /\ written # << >>

\* C5: with several requests sent, whatever the order of the Responses, a
\* request is pending exactly while no Response with its seq as request_seq
\* has been dispatched, its promise is pending exactly as long, and once
\* settled the promise has the outcome of the Response for its own seq.
C5_ResponsesInAnyOrder ==
    \A s \in SentSeqs :
        /\ Pending(s) <=> ~Answered(s)
        /\ ~Answered(s) => promises[s] = NewPromise
        /\ Answered(s)
             => /\ answeredBy[s].request_seq = Num(s)
                /\ promises[s] = OutcomeOf(answeredBy[s])

\* two requests in flight, the later one answered first
C5_Witness ==
    /\ {1, 2} \subseteq SentSeqs
    /\ Pending(1) /\ promises[1].state = "pending"
    /\ ~Pending(2) /\ promises[2].state = "fulfilled"
    /\ logged = <<"received response">>

\* a send called on the disconnected client
SendsDisconnected ==
    /\ ~connection
    /\ \/ \E command \in Commands :
             Install(sendRequest(Enter(Cur), command, Obj("args")))
       \/ \E body \in Bodies : Install(sendResponse(Enter(Cur), AnsweredByHand, body))
       \/ \E e \in ErrorTexts :
             Install(sendErrorResponse(Enter(Cur), AnsweredByHand, Str(e)))
       \/ \E m \in InboundMessages : Install(sendMessage(Enter(Cur), m))

\* C6: sendRequest, sendResponse, sendErrorResponse and sendMessage called
\* while no adapter is connected fail with 'not connected' and change
\* nothing: no pending entry, no promise, no seq consumed, nothing written,
\* and connecting afterwards writes nothing either.
C6_SendWhileDisconnectedFails ==
    [][/\ SendsDisconnected
            => thrown' = "not connected" /\ logged' = << >> /\ ClientUnchanged
       /\ ~connection => written' = written]_vars

C6_Witness ==
    /\ ~connection
    /\ thrown = "not connected"
    /\ logged = << >>
    /\ running = << >>
    /\ written # << >>
    /\ DOMAIN pendingRequests # {}

\* C7: the pending table holds an entry for seq S exactly when a request with
\* seq S has been written and no Response with request_seq = S has been
\* dispatched since; nothing else (a disconnect, a reconnect, a send of
\* another message, an event, time passing) adds or removes an entry.
C7_PendingIffSentAndUnanswered ==
    DOMAIN pendingRequests = SentSeqs \ DOMAIN answeredBy

\* a request is still pending after a disconnect and a reconnect, another one
\* was answered
C7_Witness ==
    /\ Pending(1) /\ ~Pending(2) /\ Answered(2)
    /\ connection
    /\ thrown = "already connected"

\* the messages written by sendRequest, sendResponse and sendErrorResponse
Issued ==
    SelectSeq(written, LAMBDA m : m.type \in {Str("request"), Str("response")})

\* C8: the counter starts at 1 and the requests, responses and error
\* responses sent take consecutive values from it: the k-th of them carries
\* seq k, and the counter is one past the last value issued.
C8_SeqIsFreshAndConsecutive ==
    /\ \A k \in 1..Len(Issued) : Issued[k].seq = Num(k)
    /\ nextSeq = Len(Issued) + 1

\* a request and an error response were issued, in this order
C8_Witness ==
    /\ Len(Issued) = 2
    /\ isRequest(Issued[1])
    /\ Issued[2].success = Bool(FALSE)
    /\ nextSeq = 3

(***************************************************************************)
(* Claims about the framing, checked under SpecFramer.                     *)
(***************************************************************************)
\* the decoder has nothing buffered and expects no body
FreshDecoder == connection /\ buffer = NoBytes /\ contentLength = Number(-1)

\* C9: round trip: the bytes of encodeMessage(M), fed as one chunk to a
\* connected decoder with nothing buffered, dispatch exactly the message M and
\* leave the buffer empty with no content length expected, for every message
\* M, also one whose JSON text has characters of more than one byte in UTF-8.
C9_RoundTrip ==
    [][\A m \in WireMessages :
          FreshDecoder
          /\ Install(handleData(Enter(Cur), Utf8Encode(encodeMessage(m))))
          => /\ dispatched' = <<m>>
             /\ buffer' = NoBytes
             /\ contentLength' = Number(-1)]_vars

\* what the decoder reads from the bytes of a frame: the length its header
\* announces, and the bytes after the header
FrameOf(bytes) ==
    LET idx == IndexOf(bytes, TWO_CRLF)
        lines == Split(Utf8Decode(SubSeq(bytes, 1, idx)), CRLF)
    IN  [header |-> SubSeq(bytes, 1, idx),
         length |-> HeaderLength(lines, 1, Number(-1)),
         body |-> SubSeq(bytes, idx + Len(TWO_CRLF) + 1, Len(bytes))]

\* C10: the bytes written for a message are 'Content-Length: N', CRLF CRLF and
\* the UTF-8 bytes of the JSON text with nothing after them, where N is the
\* number of those bytes (the number of bytes the decoder slices off as the
\* body).
C10_ContentLengthIsByteLength ==
    \A i \in 1..Len(written) :
        LET frame == FrameOf(Utf8Encode(encodeMessage(written[i])))
        IN  /\ frame.body = Utf8Encode(JSONstringify(written[i]))
            /\ frame.length = Number(Len(frame.body))
            /\ frame.header =
                 CONTENT_LENGTH_HEADER \o <<58, 32>> \o DecimalString(frame.length.v)

(***************************************************************************)
(* Claims about the decoder fed in chunks, checked under SpecChunks.       *)
(***************************************************************************)
\* the client as it is, with the decoder as connectAdapter finds it
WithFreshDecoder ==
    [Enter(Cur) EXCEPT !.buffer = NoBytes, !.contentLength = Number(-1)]

\* C11: chunk-boundary independence: however the bytes delivered since
\* connectAdapter were cut into chunks (inside a header, inside CRLF CRLF,
\* inside a body, inside a character), the messages dispatched from them and
\* the decode state reached (buffer, contentLength) are those of one
\* handleData call with all these bytes as a single chunk.
C11_ChunkBoundaryIndependence ==
    connection
    => LET whole == handleData(WithFreshDecoder, streamed)
       IN  /\ decoded = whole.dispatched
           /\ buffer = whole.buffer
           /\ contentLength = whole.contentLength

\* a frame whose body has a two-byte character was dispatched, and the last
\* chunk ended inside the CRLF CRLF of the next frame
C11_Witness ==
    /\ connection
    /\ Len(decoded) = 1
    /\ decoded[1].body = Str("e_acute")
    /\ Len(buffer) >= 3
    /\ SubSeq(buffer, Len(buffer) - 2, Len(buffer)) = <<13, 10, 13>>
    /\ contentLength = Number(-1)
    /\ inStream # NoBytes

(***************************************************************************)
(* Claims about the order of dispatch, checked under SpecOrder.            *)
(***************************************************************************)
RECURSIVE FrameEnd(_)
\* the offset in the stream at which the k-th frame written is complete
FrameEnd(k) == IF k = 0 THEN 0 ELSE FrameEnd(k - 1) + Len(Frames[framed[k]])

\* the frames complete in the bytes delivered so far
Completed == {k \in 1..Len(framed) : FrameEnd(k) <= Len(streamed)}

\* the call d was made to handle message
HandlingOf(d, message) ==
    \/ /\ isEvent(message)
       /\ d.handle \in 1..Len(handles)
       /\ handles[d.handle].name = message.event.v
       /\ handles[d.handle].callback = d.callback
       /\ d.body = message.body
    \/ /\ isResponse(message)
       /\ d.callback = "pendingRequests"
       /\ d.handle = message.request_seq.v
       /\ d.body = message.body

\* C12: the messages dispatched since connectAdapter are the messages of the
\* frames complete in the bytes delivered, in the order of the stream, also
\* when one chunk completes several; and in a data event every call of a
\* listener or of a pending request's callback is made for the message
\* dispatched last at that moment, so the calls for message k all come
\* before message k+1 is dispatched.
C12_DispatchedInStreamOrder ==
    connection
    => /\ decoded = SubSeq(framed, 1, Cardinality(Completed))
       /\ \A i \in 1..Len(delivered) :
             /\ delivered[i].during \in 1..Len(dispatched)
             /\ HandlingOf(delivered[i], dispatched[delivered[i].during])
             /\ \A j \in 1..(i - 1) : delivered[j].during <= delivered[i].during

\* one chunk carried an event with two listeners and the response of a
\* pending request
C12_Witness ==
    /\ Len(dispatched) = 2
    /\ isEvent(dispatched[1]) /\ isResponse(dispatched[2])
    /\ Len(delivered) = 3
    /\ delivered[1].callback = "cb1" /\ delivered[1].during = 1
    /\ delivered[2].callback = "cbThrows" /\ delivered[2].during = 1
    /\ delivered[3].callback = "pendingRequests" /\ delivered[3].during = 2
    /\ promises[1].state = "fulfilled"

(***************************************************************************)
(* Claims about the event hub, checked under SpecEvents.                   *)
(***************************************************************************)
\* the call of listener l with body, outside a data event
CallOf(l, body) ==
    [callback |-> l.callback, body |-> body, handle |-> l.handle, during |-> 0]

\* the subscription of handle i is among the listeners of its event name
Live(i) ==
    \E k \in 1..Len(eventListeners[handles[i].name]) :
        eventListeners[handles[i].name][k].handle = i

\* C13: when an Event named E is dispatched, the callbacks called are exactly
\* the callbacks subscribed to E at that moment, each with the body of the
\* event, in the order of their subscription; no callback subscribed to
\* another name is called.
C13_EveryListenerIsCalledInOrder ==
    [][\A m \in InboundEvents :
          Dispatches(m)
          => delivered' = [k \in 1..Len(eventListeners[m.event.v]) |->
                             CallOf(eventListeners[m.event.v][k], m.body)]]_vars

\* C14: when an Event named E is dispatched, every listener of E is called;
\* one subscribed with once = true is no longer subscribed afterwards (so it
\* is called for the first event after its subscription and for no later
\* one), also when it throws; one subscribed with once = false stays.
C14_OnceFiresOnFirstEventOnly ==
    [][\A m \in InboundEvents :
          Dispatches(m)
          => \A k \in 1..Len(eventListeners[m.event.v]) :
                LET l == eventListeners[m.event.v][k]
                    after == eventListeners'[m.event.v]
                IN  /\ \E j \in 1..Len(delivered') :
                          delivered'[j] = CallOf(l, m.body)
                    /\ l.once <=> ~\E j \in 1..Len(after) : after[j] = l]_vars

\* C15: unsubscribe() on the handle of a once subscription that has fired
\* (and so was removed) throws nothing and removes no subscription.
C15_StaleUnsubscribeIsNoOp ==
    [][\A i \in 1..Len(handles) :
          /\ handles[i].kind = "event"
          /\ handles[i].once
          /\ i \in fired
          /\ Install(unsubscribe(Enter(Cur), handles[i]))
          => /\ thrown' = None
             /\ eventListeners' = eventListeners
             /\ reverseRequestHandlers' = reverseRequestHandlers]_vars

\* the listeners of the event name of handle i that have its callback
SameCallback(i) ==
    {k \in 1..Len(eventListeners[handles[i].name]) :
        eventListeners[handles[i].name][k].callback = handles[i].callback}

\* C16: unsubscribe() on the handle of a subscription that is still there,
\* of a callback subscribed a single time to its event name, with or without
\* once, removes this listener and no other and throws nothing; and an Event
\* calls no callback that is not among the listeners of its name, so the
\* callback is not called for a later event.
C16_UnsubscribedIsNotCalled ==
    [][/\ \A i \in 1..Len(handles) :
             /\ handles[i].kind = "event"
             /\ Live(i)
             /\ Cardinality(SameCallback(i)) = 1
             /\ Install(unsubscribe(Enter(Cur), handles[i]))
             => /\ thrown' = None
                /\ eventListeners' =
                     [eventListeners EXCEPT ![handles[i].name] =
                         SelectSeq(@, LAMBDA l : l.handle # i)]
                /\ reverseRequestHandlers' = reverseRequestHandlers
       /\ \A m \in InboundEvents :
             Dispatches(m)
             => \A j \in 1..Len(delivered') :
                   \E k \in 1..Len(eventListeners[m.event.v]) :
                      delivered'[j] = CallOf(eventListeners[m.event.v][k], m.body)
      ]_vars

\* a once subscription that had not fired was unsubscribed, another listener
\* of the same event stays, and a later event calls only that one
C16_Witness ==
    /\ Len(handles) = 2
    /\ handles[1].once /\ handles[1].name = "stopped"
    /\ handles[2].name = "stopped" /\ handles[2].callback # handles[1].callback
    /\ fired = {}
    /\ ~Live(1) /\ Live(2)
    /\ Len(delivered) = 1 /\ delivered[1].handle = 2
    /\ logged = <<"received event">>

(***************************************************************************)
(* Claims about the reverse-request registry, checked under SpecReverse.   *)
(***************************************************************************)
\* a step in which the promise of running[i] settles
Settles(i, ok, result) == Install(handlerSettled(Enter(Cur), i, ok, result))

\* the call of handler for the request message, as running keeps it
Invocation(handler, message) ==
    [handler |-> handler, request |-> message, args |-> message.arguments,
     from |-> stream]

\* the success Response to request that takes the next seq
SuccessResponse(request, body) ==
    [EmptyMessage EXCEPT !.type = Str("response"), !.seq = Num(nextSeq),
        !.command = request.command, !.request_seq = request.seq,
        !.success = Bool(TRUE), !.body = body]

IsErrorResponse(message, request, description) ==
    /\ isResponse(message)
    /\ message.success = Bool(FALSE)
    /\ message.request_seq = request.seq
    /\ message.command = request.command
    /\ message.message = description

\* the step writes one message, a failure Response to request
WritesErrorResponse(request, description) ==
    /\ Len(written') = Len(written) + 1
    /\ SubSeq(written', 1, Len(written)) = written
    /\ IsErrorResponse(written'[Len(written')], request, description)

\* the part of C18 about a handler whose promise is rejected: while the
\* adapter is connected, the failure Response with the message of the Error
\* is written
C18_RejectionIsAnswered ==
    [][\A i \in 1..Len(running), e \in ErrorTexts :
          /\ connection
          /\ Settles(i, FALSE, Str(e))
          => WritesErrorResponse(running[i].request, Str(e))]_vars

\* C18: when the handler registered for the command of a Request fails, be
\* it that the promise it returned is rejected or that it throws while it is
\* called, a Response with success = false, the seq of the request as
\* request_seq, its command and the description of the failure as message
\* is written.
C18_HandlerFailureIsAnswered ==
    [][/\ \A i \in 1..Len(running), e \in ErrorTexts :
             /\ connection
             /\ Settles(i, FALSE, Str(e))
             => WritesErrorResponse(running[i].request, Str(e))
       /\ \A m \in InboundRequests :
             /\ Dispatches(m)
             /\ HandlerFor(Cur, m.command.v) # None
             /\ Throws(HandlerFor(Cur, m.command.v))
             => WritesErrorResponse(m, Str("handler failed"))
      ]_vars

\* the handles given for command, in the order of their registration
HandlesFor(command) ==
    {i \in 1..Len(handles) :
        handles[i].kind = "request" /\ handles[i].name = command}

\* the calls of handlers that the step starts
Invoked ==
    IF Len(running') > Len(running)
    THEN {running'[k].handler : k \in (Len(running) + 1)..Len(running')}
    ELSE {}

\* C20: the registry holds one handler per command. onReverseRequest(C, h)
\* puts h in the place of the handler C had, so the handler of C is always
\* the one registered last for C, or none; a Request for C calls that handler
\* and no other; unsubscribe() of a handle given for C removes the entry of
\* C when the handler there is the one the handle was given for, and leaves
\* it otherwise, as after a later registration of another handler.
C20_OneHandlerLastWriteWins ==
    [][/\ \A cmd \in ReverseCommands :
             /\ reverseRequestHandlers[cmd] # None
                => /\ HandlesFor(cmd) # {}
                   /\ reverseRequestHandlers[cmd]
                        = handles[CHOOSE i \in HandlesFor(cmd) :
                                    \A j \in HandlesFor(cmd) : j <= i].callback
             /\ \A h \in Handlers :
                   Install(onReverseRequest(Enter(Cur), cmd, h))
                   => reverseRequestHandlers' =
                         [reverseRequestHandlers EXCEPT ![cmd] = h]
       /\ \A m \in InboundRequests :
             Dispatches(m)
             => /\ Invoked \subseteq {HandlerFor(Cur, m.command.v)} \ {None}
                /\ Len(running') <= Len(running) + 1
                /\ reverseRequestHandlers' = reverseRequestHandlers
       /\ \A i \in 1..Len(handles) :
             /\ handles[i].kind = "request"
             /\ Install(unsubscribe(Enter(Cur), handles[i]))
             => /\ thrown' = None
                /\ reverseRequestHandlers' =
                     IF reverseRequestHandlers[handles[i].name]
                           = handles[i].callback
                     THEN [reverseRequestHandlers EXCEPT
                              ![handles[i].name] = None]
                     ELSE reverseRequestHandlers
      ]_vars

\* h1 and then h2 were registered for runInTerminal, a Request for it was
\* dispatched and h2 alone was called: unsubscribe() of the handle of h1
\* leaves this state as it is, with h2 registered
C20_Witness ==
    /\ connection
    /\ Len(handles) = 2
    /\ handles[1].callback = "h1" /\ handles[2].callback = "h2"
    /\ HandlesFor("runInTerminal") = {1, 2}
    /\ reverseRequestHandlers["runInTerminal"] = "h2"
    /\ Len(running) = 1 /\ running[1].handler = "h2"
    /\ unsubscribe(Enter(Cur), handles[1]) = Enter(Cur)
    /\ unsubscribe(Enter(Cur), handles[2]).reverseRequestHandlers
          = [cmd \in ReverseCommands |-> None]

(***************************************************************************)
(* Claims about requests without handler, checked under SpecOrder, where   *)
(* no handler is ever registered and the adapter sends a runInTerminal     *)
(* request among its frames.                                               *)
(***************************************************************************)
\* the requests an adapter can send, directly or in the stream
UnhandledRequests ==
    {m \in InboundRequests \cup StreamMessages :
        isRequest(m) /\ HandlerFor(Cur, m.command.v) = None}

\* C19: handleMessage on a Request whose command has no handler changes
\* nothing but the log: nothing is written, nothing is thrown, nextSeq, the
\* pending table, the listeners and the handlers stay as they are; so all
\* that is written are the requests of the client, numbered without a gap;
\* and the frames that follow the request in the stream are decoded and
\* dispatched like the others.
C19_UnhandledRequestIsIgnored ==
    connection
    => /\ \A m \in UnhandledRequests :
             handleMessage(Enter(Cur), m)
                = log(Enter(Cur), "no handler is registered")
       /\ \A i \in 1..Len(written) :
             isRequest(written[i]) /\ written[i].seq = Num(i)
       /\ nextSeq = Len(written) + 1
       /\ (\E i \in 1..Len(logged) : logged[i] = "no handler is registered")
             => thrown = None
       /\ \A k \in Completed :
             (\E j \in 1..(k - 1) : isRequest(framed[j]))
             => k <= Len(decoded) /\ decoded[k] = framed[k]

\* one chunk carried the runInTerminal request and then the stopped event:
\* both were dispatched, the event after the request, and the request of
\* the client is all that was written
C19_Witness ==
    /\ connection
    /\ Len(framed) = 2 /\ isRequest(framed[1]) /\ isEvent(framed[2])
    /\ framed[2].event = Str("stopped")
    /\ decoded = framed
    /\ inStream = NoBytes
    /\ logged = <<"no handler is registered", "received event">>
    /\ Len(written) = 1
    /\ reverseRequestHandlers = [cmd \in ReverseCommands |-> None]

(***************************************************************************)
(* Claims about what disconnectAdapter leaves behind, checked under Spec.  *)
(***************************************************************************)
\* C21: while the adapter is disconnected the client holds nothing of an
\* earlier connection: the pending table is empty and the counter is back at
\* 1, the seq the first request of the next connection will get.
C21_NothingCarriedOver ==
    ~connection => pendingRequests = << >> /\ nextSeq = 1

\* C22: while the adapter is disconnected no promise of a request is still
\* pending: the requests that were pending when disconnectAdapter was called
\* have been rejected by it.
C22_DisconnectFailsPending ==
    ~connection => \A s \in DOMAIN promises : promises[s].state # "pending"

(***************************************************************************)
(* Claims about the decode state over a disconnect, checked under          *)
(* SpecChunks.                                                             *)
(***************************************************************************)
\* the decode state of c
DecodeState(c) == <<c.buffer, c.contentLength>>

\* the client after the operations other than handleData and
\* disconnectAdapter, each called in the state c
OtherOperations(c) ==
    {connectAdapter(c, FirstStreams), sendMessage(c, EmptyMessage)}
    \cup {sendRequest(c, command, Obj("args")) : command \in Commands}
    \cup {sendResponse(c, AnsweredByHand, body) : body \in Bodies}
    \cup {sendErrorResponse(c, AnsweredByHand, Str(e)) : e \in ErrorTexts}
    \cup {onEvent(c, e, cb, once) :
             e \in EventNames, cb \in Callbacks, once \in BOOLEAN}
    \cup {onReverseRequest(c, command, h) :
             command \in ReverseCommands, h \in Handlers}
    \cup {unsubscribe(c, c.handles[i]) : i \in 1..Len(c.handles)}
    \cup {handleMessage(c, m) : m \in InboundMessages}

\* C23: disconnectAdapter leaves an empty buffer and no content length
\* expected, whatever part of a header or of a body was buffered; so after
\* disconnectAdapter and connectAdapter the first frame of the new connection
\* (an event here) is decoded to its own message, none of the old bytes in
\* it; and no
\* operation other than handleData and disconnectAdapter changes the decode
\* state.
C23_DisconnectResetsDecoder ==
    /\ ~connection => buffer = NoBytes /\ contentLength = Number(-1)
    /\ LET again == connectAdapter(disconnectAdapter(Enter(Cur)), FirstStreams)
       IN  /\ DecodeState(again) = <<NoBytes, Number(-1)>>
           /\ \A m \in {e \in StreamMessages : isEvent(e)} :
                 LET after == handleData(again, Frames[m])
                 IN  /\ after.dispatched = <<m>>
                     /\ DecodeState(after) = <<NoBytes, Number(-1)>>
    /\ \A after \in OtherOperations(Enter(Cur)) :
          DecodeState(after) = <<buffer, contentLength>>

\* a header was read and a part of its body is buffered: disconnectAdapter
\* called now drops these bytes and the expected length
C23_Witness ==
    /\ connection
    /\ contentLength.v > 0
    /\ buffer # NoBytes
    /\ DecodeState(disconnectAdapter(Enter(Cur))) = <<NoBytes, Number(-1)>>

(***************************************************************************)
(* Claims about blocks that are no well-formed frames, checked under       *)
(* SpecBlocks.                                                             *)
(***************************************************************************)
\* a content length is expected: the next pass looks for a body
Expecting(c) == ~c.contentLength.nan /\ c.contentLength.v >= 0

\* the passes the loop may need at most for a buffer of this length: one per
\* CRLF CRLF, one per body after it, and the pass that breaks
MaxPasses(c) == 2 * (Len(c.buffer) \div Len(TWO_CRLF)) + 2

RECURSIVE Passes(_, _)
\* the clients at the start of the passes of the loop entered with c, up to
\* the one that breaks, or up to left + 1 of them if none does so
Passes(c, left) ==
    IF iteration(c).continues /\ left > 0
    THEN <<c>> \o Passes(iteration(c).c, left - 1)
    ELSE <<c>>

\* C24: handleData returns for every chunk in every decode state the blocks
\* lead to (lengths that are missing, zero, negative or no number, bodies
\* that are empty or no JSON): each pass of the loop that continues either
\* takes at least the four bytes of a CRLF CRLF off the buffer, or clears an
\* expected content length without adding bytes, and it never does the
\* second twice in a row; so the loop breaks within MaxPasses passes, in the
\* state handleData returns.
C24_DecodeLoopTerminates ==
    \A n \in ChunkSizes :
        LET data == SubSeq(inStream, 1, n)
            start == [Enter(Cur) EXCEPT !.buffer = @ \o data]
            passes == Passes(start, MaxPasses(start))
            last == passes[Len(passes)]
        IN  /\ ~iteration(last).continues
            /\ iteration(last).c = handleData(Enter(Cur), data)
            /\ \A i \in 1..(Len(passes) - 1) :
                  \/ Len(passes[i + 1].buffer)
                        <= Len(passes[i].buffer) - Len(TWO_CRLF)
                  \/ /\ Expecting(passes[i]) /\ ~Expecting(passes[i + 1])
                     /\ Len(passes[i + 1].buffer) <= Len(passes[i].buffer)

\* the decoder holds a length that is no number and the body sent with it,
\* and what comes next is the block with a negative length, whole: the loop
\* takes the body and the header as one header block and breaks in its
\* second pass, the buffer empty
C24_Witness ==
    /\ connection
    /\ contentLength = NaN
    /\ buffer = <<123, 125>>
    /\ inStream = Blocks["negative"]
    /\ LET start == [Enter(Cur) EXCEPT !.buffer = @ \o inStream]
       IN  /\ Len(Passes(start, MaxPasses(start))) = 2
           /\ DecodeState(handleData(Enter(Cur), inStream)) = <<NoBytes, NaN>>

\* the bytes of blocks 1..k of the stream
RECURSIVE BlockEnd(_)
BlockEnd(k) == IF k = 0 THEN 0 ELSE BlockEnd(k - 1) + Len(Blocks[framed[k]])

\* C26: when the first bytes of a connection are 'Content-Length: notanumber'
\* CRLF CRLF '{}', in one chunk or in several, handleData throws nothing and
\* dispatches nothing: the length read is NaN, no body is taken for it, and
\* the two bytes of '{}' stay in the buffer.
C26_NonNumericLengthIsNoLength ==
    /\ connection
    /\ framed # << >>
    /\ framed[1] = "nan"
    /\ Len(streamed) <= BlockEnd(1)
    => /\ thrown \in {None, "already connected"}
       /\ decoded = << >>
       /\ dispatched = << >>
       /\ ~Expecting(Cur)
       /\ Len(streamed) = BlockEnd(1)
          => /\ contentLength = NaN
             /\ buffer = <<123, 125>>
             /\ handleData(WithFreshDecoder, Blocks["nan"]).thrown = None
             /\ handleData(WithFreshDecoder, Blocks["nan"]).dispatched = << >>

\* the block with the length 'notanumber' was delivered, all of it
C26_Witness ==
    /\ connection
    /\ framed = <<"nan">>
    /\ streamed = Blocks["nan"]
    /\ contentLength = NaN
    /\ decoded = << >>
    /\ thrown = None

\* the blocks complete in the bytes delivered so far
CompletedBlocks == {k \in 1..Len(framed) : BlockEnd(k) <= Len(streamed)}

\* a header block with a length that is no number, or without Content-Length
\* line, has been delivered
BadLengthDelivered ==
    \E k \in CompletedBlocks : framed[k] \in {"nan", "nolength"}

RECURSIVE Leftover(_)
\* after blocks 1..k, bytes that no header block has taken are left in the
\* buffer: the body that came with a header whose length was not recognised
Leftover(k) ==
    IF k = 0 THEN FALSE
    ELSE CASE framed[k] \in {"nan", "lowercase"} -> TRUE
           [] framed[k] \in {"nolength", "zero", "negative", "extra"} -> FALSE
           [] framed[k] \in {"event", "badjson"} -> Leftover(k - 1)

RECURSIVE Expected(_)
\* the messages dispatched from blocks 1..k
Expected(k) ==
    IF k = 0 THEN << >>
    ELSE Expected(k - 1)
         \o IF \/ framed[k] = "extra"
               \/ framed[k] = "event" /\ ~Leftover(k - 1)
            THEN <<CHOOSE m \in StreamMessages : m.event = Str("stopped")>>
            ELSE << >>

C27_BadJsonDropsOneMessage ==
    connection
    => \A k \in CompletedBlocks :
          framed[k] = "badjson" /\ ~Leftover(k - 1)
          => /\ thrown \in {None, "already connected"}
             /\ Len(streamed) = BlockEnd(k)
                => /\ DecodeState(Cur) = <<NoBytes, Number(-1)>>
                   /\ decoded = Expected(k - 1)
             /\ LET valid == CONTENT_LENGTH_HEADER \o <<58, 32, 50>>
                                \o TWO_CRLF \o <<123, 125>>
                    bad == handleData(WithFreshDecoder, Blocks["badjson"])
                    both == handleData(WithFreshDecoder,
                                       Blocks["badjson"] \o Blocks["event"])
                IN  /\ DecodeState(bad)
                         = DecodeState(handleData(WithFreshDecoder, valid))
                    /\ bad.dispatched = << >> /\ bad.thrown = None
                    /\ bad.logged = <<"Error handling message">>
                    /\ Len(both.dispatched) = 1
                    /\ both.dispatched[1].event = Str("stopped")
             /\ k + 1 \in CompletedBlocks /\ framed[k + 1] = "event"
                => /\ Len(decoded) >= Len(Expected(k - 1)) + 1
                   /\ decoded[Len(Expected(k - 1)) + 1].event = Str("stopped")

\* the frame with the body that is no JSON was delivered, and after it, in
\* chunks of their own, the bytes of a well-formed frame, whose message was
\* dispatched
C27_Witness ==
    /\ connection
    /\ framed = <<"badjson", "event">>
    /\ inStream = NoBytes
    /\ Len(decoded) = 1
    /\ decoded[1].event = Str("stopped")
    /\ logged = <<"received event">>

\* C28: a frame with Content-Length 0 at a block boundary is taken off the
\* buffer when its CRLF CRLF has arrived; nothing is dispatched for it and
\* JSON.parse is not called on the empty body, so no error is logged either;
\* the decoder is then in the state it had before the frame, and a
\* well-formed frame after it is dispatched.
C28_EmptyBodyIsSkipped ==
    connection
    => \A k \in CompletedBlocks :
          framed[k] = "zero" /\ ~Leftover(k - 1)
          => /\ thrown \in {None, "already connected"}
             /\ Len(streamed) = BlockEnd(k)
                => /\ DecodeState(Cur) = <<NoBytes, Number(-1)>>
                   /\ decoded = Expected(k - 1)
             /\ LET zero == handleData(WithFreshDecoder, Blocks["zero"])
                    both == handleData(WithFreshDecoder,
                                       Blocks["zero"] \o Blocks["event"])
                IN  /\ DecodeState(zero) = <<NoBytes, Number(-1)>>
                    /\ zero.dispatched = << >> /\ zero.thrown = None
                    /\ zero.logged = << >>
                    /\ Len(both.dispatched) = 1
                    /\ both.dispatched[1].event = Str("stopped")
                    /\ both.logged = <<"received event">>
             /\ k + 1 \in CompletedBlocks /\ framed[k + 1] = "event"
                => /\ Len(decoded) >= Len(Expected(k - 1)) + 1
                   /\ decoded[Len(Expected(k - 1)) + 1].event = Str("stopped")

\* the frame with Content-Length 0 and then a well-formed frame were
\* delivered: the message of the second was dispatched
C28_Witness ==
    /\ connection
    /\ framed = <<"zero", "event">>
    /\ inStream = NoBytes
    /\ Len(decoded) = 1
    /\ decoded[1].event = Str("stopped")
    /\ DecodeState(Cur) = <<NoBytes, Number(-1)>>

\* C29: only a header line whose name is exactly Content-Length, followed
\* by a colon and one space or more, gives the length.  A frame with another
\* header line before and after its Content-Length line (three spaces after
\* the colon) is decoded like the frame without them: its message is
\* dispatched and the decode state after it is the same.  A header block
\* whose only line is spelled content-length sets no length: no body is read
\* for it, nothing is dispatched, contentLength stays what it was and the
\* bytes sent as its body stay in the buffer.
C29_OnlyContentLengthCounts ==
    connection
    => \A k \in CompletedBlocks :
          /\ framed[k] \in {"extra", "lowercase"}
             => LET plain == handleData(WithFreshDecoder, Blocks["event"])
                    extra == handleData(WithFreshDecoder, Blocks["extra"])
                    lowercase == handleData(WithFreshDecoder,
                                            Blocks["lowercase"])
                IN  /\ Len(plain.dispatched) = 1
                    /\ extra.dispatched = plain.dispatched
                    /\ DecodeState(extra) = DecodeState(plain)
                    /\ extra.thrown = None
                    /\ lowercase.dispatched = << >>
                    /\ DecodeState(lowercase) = <<<<123, 125>>, Number(-1)>>
          /\ framed[k] = "extra" /\ Len(streamed) = BlockEnd(k)
             => /\ decoded = Expected(k - 1)
                               \o <<CHOOSE m \in StreamMessages :
                                       m.event = Str("stopped")>>
                /\ DecodeState(Cur) = <<NoBytes, Number(-1)>>
          /\ framed[k] = "lowercase" /\ ~Leftover(k - 1)
             /\ Len(streamed) = BlockEnd(k)
             => /\ decoded = Expected(k - 1)
                /\ ~Expecting(Cur)
                /\ buffer = <<123, 125>>

\* the block with the content-length line and then the frame with the extra
\* header lines were delivered: nothing was dispatched for the first, the
\* message of the second was
C29_Witness ==
    /\ connection
    /\ framed = <<"lowercase", "extra">>
    /\ inStream = NoBytes
    /\ Len(decoded) = 1
    /\ decoded[1].event = Str("stopped")
    /\ DecodeState(Cur) = <<NoBytes, Number(-1)>>

(***************************************************************************)
(* Claims about the classification of messages, checked under              *)
(* SpecClassify.                                                           *)
(***************************************************************************)
\* C30: for the object handed to handleMessage at most one of isResponse,
\* isEvent and isRequest holds; isResponse holds exactly when type is
\* 'response', request_seq a number and success a boolean, with or without
\* seq; isEvent exactly when type is 'event', event a string and seq a
\* number; isRequest exactly when type is 'request', command a string and
\* seq a number; an object with a field of these missing or of another type
\* is none of the three, and handleMessage takes the branch of the one that
\* holds, or the last branch if none does.
C30_AtMostOneShape ==
    \A i \in 1..Len(dispatched) :
        LET m == dispatched[i]
            response == /\ m.type = Str("response")
                        /\ m.request_seq = Num(1)
                        /\ m.success = Bool(TRUE)
            event == /\ m.type = Str("event")
                     /\ m.event = Str("stopped")
                     /\ m.seq = Num(1)
            request == /\ m.type = Str("request")
                       /\ m.command = Str("runInTerminal")
                       /\ m.seq = Num(1)
        IN  /\ Cardinality({f \in {"response", "event", "request"} :
                              \/ f = "response" /\ isResponse(m)
                              \/ f = "event" /\ isEvent(m)
                              \/ f = "request" /\ isRequest(m)}) <= 1
            /\ isResponse(m) <=> response
            /\ isEvent(m) <=> event
            /\ isRequest(m) <=> request
            /\ logged = <<IF response THEN "response not matching any request"
                          ELSE IF event THEN "received event"
                          ELSE IF request THEN "no handler is registered"
                          ELSE "message of unknown type">>

\* an object with type 'response', a number as request_seq, a boolean as
\* success and no seq was handed to handleMessage and taken as a response
C30_Witness ==
    /\ Len(dispatched) = 1
    /\ dispatched[1].type = Str("response")
    /\ dispatched[1].seq = Undefined
    /\ dispatched[1].command = Undefined
    /\ isResponse(dispatched[1])
    /\ logged = <<"response not matching any request">>


(***************************************************************************)
(* Messages of no known type                                               *)
(***************************************************************************)

UnknownMessages ==
    {m \in InboundMessages : ~isRequest(m) /\ ~isResponse(m) /\ ~isEvent(m)}

\* C31: dispatching a message that is neither a Request, a Response nor an
\* Event never throws and does nothing but log: no promise is settled, no
\* listener or handler is called, nothing is written, and the pending table,
\* the sequence counter and the registries stay as they were
C31_UnknownMessageOnlyLogs ==
    \A m \in UnknownMessages :
        LET c == Enter(Cur)
            after == handleMessage(c, m)
        IN  /\ after.thrown = None
            /\ after.delivered = << >>
            /\ after = [c EXCEPT !.logged = <<"message of unknown type">>]

C31_Witness ==
    /\ logged = <<"message of unknown type">>
    /\ thrown = None
    /\ DOMAIN pendingRequests # {}
    /\ eventListeners["stopped"] # << >>
    /\ reverseRequestHandlers["runInTerminal"] # None
    /\ written # << >>


(***************************************************************************)
(* Claims about reconnecting, checked under SpecReconnect.                 *)
(***************************************************************************)

\* the number of the message written[i] among those written to its outStream
PlaceOnStream(i) == Cardinality({j \in 1..i : writtenTo[j] = writtenTo[i]})

\* C32: on one connection the k-th message written (request, success or
\* error response) has seq k: the seq values written to one outStream are
\* 1, 2, ... in write order, without gaps
C32_SeqCountsWritesOfConnection ==
    \A i \in 1..Len(written) : written[i].seq = Num(PlaceOnStream(i))


\* the places in written of the Responses to the request numbered s
ResponsesTo(s) ==
    {i \in 1..Len(written) : isResponse(written[i])
                             /\ written[i].request_seq = Num(s)}

\* C33: a request of the adapter gets at most one Response, whether its
\* handler resolves or rejects and whether the Response can be sent or not:
\* never a success and an error Response, never two Responses with one
\* request_seq; a request is still handled, answered once, or left unanswered
C33_AtMostOneResponsePerRequest ==
    /\ \A s \in 1..Len(framed) : Cardinality(ResponsesTo(s)) <= 1
    /\ \A s \in 1..Len(framed) :
          ResponsesTo(s) # {} => \A i \in 1..Len(running) :
                                     running[i].request.seq # Num(s)
    /\ \A i \in 1..Len(written) :
          isResponse(written[i]) => written[i].request_seq.v \in 1..Len(framed)

\* both requests were handled: one is answered, the answer to the other one
\* could not be sent
C33_Witness ==
    /\ Len(framed) = 2
    /\ running = << >>
    /\ Cardinality(ResponsesTo(1) \cup ResponsesTo(2)) = 1
    /\ thrown = "not connected"
    /\ logged = << >>
    /\ reverseRequestHandlers["runInTerminal"] # None


\* C34: while several requests of the adapter are being handled, whichever
\* handler completes next has its Response written next, after all that
\* is written: the Response carries the request_seq and the command of the
\* request of that handler, and the other handlers stay as they are
C34_ResponsesInCompletionOrder ==
    connection =>
        \A i \in 1..Len(running), ok \in BOOLEAN :
            \A result \in IF ok THEN Bodies ELSE {Str(e) : e \in ErrorTexts} :
                LET after == handlerSettled(Enter(Cur), i, ok, result)
                    response == after.written[Len(written) + 1]
                IN  /\ Len(after.written) = Len(written) + 1
                    /\ SubSeq(after.written, 1, Len(written)) = written
                    /\ isResponse(response)
                    /\ response.request_seq = running[i].request.seq
                    /\ response.command = running[i].request.command
                    /\ response.success = Bool(ok)
                    /\ ok => response.body = result
                    /\ ~ok => response.message = result
                    /\ after.running = RemoveAt(running, i)
                    /\ after.thrown = None

\* two requests were handled at once and the second one was answered first
C34_Witness ==
    /\ Len(framed) = 2
    /\ Len(written) = 2
    /\ written[1].request_seq = Num(2) /\ written[1].success = Bool(TRUE)
    /\ written[2].request_seq = Num(1) /\ written[2].success = Bool(FALSE)
    /\ written[1].command = framed[2].command
    /\ running = << >>


(***************************************************************************)
(* Claims about tearing down, checked under SpecTeardown.                  *)
(***************************************************************************)

\* the calls of the last step in which a listener disconnected the client
DisconnectingCalls(calls) ==
    {k \in 1..Len(calls) : Disconnects(calls[k].callback)}

\* C35: from the return of disconnectAdapter until the next connectAdapter no
\* message is dispatched and nothing is written: not by a send of the
\* application, not by a handler that completes after the disconnect, and,
\* when a listener disconnects while handleData has further complete
\* messages of the chunk buffered, not for any message after the one the
\* listener was called for
C35_NothingAfterDisconnect ==
    [][/\ ~connection /\ ~connection'
          => /\ written' = written
             /\ dispatched' = << >>
             /\ delivered' = << >>
       /\ ~connection
          => \A command \in Commands :
                sendRequest(Enter(Cur), command, Obj("args")).written = written
       /\ connection /\ ~connection'
          => /\ written' = written
             /\ dispatched' # << >>
                => /\ DisconnectingCalls(delivered') # {}
                   /\ \A k \in DisconnectingCalls(delivered') :
                         delivered'[k].during = Len(dispatched')
      ]_vars

\* a listener disconnected the client during the first of two messages of one
\* chunk, while a handler started before was still running
C35_Witness ==
    /\ ~connection
    /\ Len(framed) = 2
    /\ Len(dispatched) = 1
    /\ DisconnectingCalls(delivered) # {}
    /\ inStream = NoBytes
    /\ buffer = NoBytes
    /\ running # << >>


\* the streams the request numbered s was written to
SentOn(s) ==
    LET i == CHOOSE k \in 1..Len(written) :
                 isRequest(written[k]) /\ written[k].seq = Num(s)
    IN  writtenTo[i]

\* C36: the Response of a handler is written to the streams its request came
\* from and to no others, and a Response read from the streams attached
\* settles only requests that were written to these streams
C36_ResponsesStayOnTheirConnection ==
    connection =>
        /\ \A i \in 1..Len(running), ok \in BOOLEAN :
              LET after == handlerSettled(Enter(Cur), i, ok,
                              IF ok THEN Obj("x1") ELSE Str("bad"))
              IN  after.written # written => running[i].from = stream
        /\ \A m \in InboundResponses :
              handleMessage(Enter(Cur), m).promises # promises
              => SentOn(m.request_seq.v) = stream


\* dispatching the message makes a listener or a handler of the client throw
FailsToHandle(m) ==
    \/ /\ isEvent(m)
       /\ \E k \in 1..Len(eventListeners[m.event.v]) :
             Throws(eventListeners[m.event.v][k].callback)
    \/ /\ isRequest(m)
       /\ Throws(HandlerFor(Cur, m.command.v))

ErrorsLogged(lines) ==
    Cardinality({k \in 1..Len(lines) : lines[k] = "Error handling message"})

\* C37: an exception thrown while one message is dispatched, by an event
\* listener or by a handler that throws when it is called, stays inside
\* handleData: handleData does not throw, an error is logged for that message
\* alone, its bytes are consumed, and the messages that follow in the chunk
\* are dispatched
C37_DispatchErrorIsContained ==
    connection /\ inStream # NoBytes =>
        LET after == handleData(Enter(Cur), inStream)
            rest == SubSeq(framed, Cardinality(Completed) + 1, Len(framed))
        IN  /\ after.thrown = None
            /\ after.connection
               => /\ after.dispatched = rest
                  /\ after.buffer = NoBytes
                  /\ after.contentLength = Number(-1)
            /\ ErrorsLogged(after.logged) =
                  Cardinality({k \in 1..Len(after.dispatched) :
                                  FailsToHandle(after.dispatched[k])})

\* one chunk carried a request whose handler threw and then an event whose
\* listener threw
C37_Witness ==
    /\ connection
    /\ Len(dispatched) = 2
    /\ isRequest(dispatched[1]) /\ FailsToHandle(dispatched[1])
    /\ isEvent(dispatched[2]) /\ FailsToHandle(dispatched[2])
    /\ \E k \in 1..Len(delivered) :
          Throws(delivered[k].callback) /\ delivered[k].during = 2
    /\ ErrorsLogged(logged) = 2
    /\ thrown = None
    /\ buffer = NoBytes
    /\ running = << >>


(***************************************************************************)
(* Claims about the SocketDebugClient, checked under SpecSocket.           *)
(***************************************************************************)

\* C38: the ConnectionState agrees with the connection: it is Connected
\* exactly when a socket is attached, so it is Disconnected after
\* disconnectAdapter, and a connectAdapter call made when no socket is
\* attached and none is being connected is accepted
C38_StateAgreesWithSocket ==
    /\ state = Connected <=> socket # None
    /\ state = Connected <=> connection
    /\ socket = None /\ attempts = {}
       => \A s \in Sockets : socketConnectAdapter(Enter(Cur), s).thrown = None

\* C39: a connectAdapter call made in state Connecting or Connected is
\* rejected and leaves the state as it is, so that at most one call is waiting
\* for its socket, and only in state Connecting, and at most one socket is
\* attached
C39_RejectedCallKeepsState ==
    /\ state # Disconnected
       => \A s \in Sockets :
             LET after == socketConnectAdapter(Enter(Cur), s)
             IN  /\ after.thrown # None
                 /\ after.state = state
                 /\ after.attempts = attempts
    /\ Cardinality(attempts) <= 1
    /\ attempts # {} => state = Connecting
    /\ connection => stream = socket

====
